---- MODULE Spec2Model ----
(***************************************************************************)
(* Verification model of the browser-side calculators of simdev_website:   *)
(*   - the fluid table loader of getOilProperties.js (loadFluidData),      *)
(*   - the curve fitting module curve_fitting.js and the porous-media page *)
(*     script (fitCurve, calculateAll, calculateFromFlow),                 *)
(*   - the unit converter, the fluid property getters and the temperature  *)
(*     field of the oil properties page,                                   *)
(*   - the Reynolds number and pipe velocity calculators of the tools page,*)
(*   - the carousel and the video player of home.js.                       *)
(* Numbers are exact rationals with the IEEE special values NaN and        *)
(* +/-Infinity that a JavaScript division by zero produces.                *)
(***************************************************************************)
EXTENDS Integers, Sequences, FiniteSets, TLC

(***************************************************************************)
(* Bounds of the model.                                                    *)
(***************************************************************************)
MaxLoads == 3
MaxCalls == 3
MaxPoints == 3
MaxRows == 3
MaxCharts == 2
MaxNumPoints == 3

VARIABLES
    env,          \* which loading method the runtime offers (lines 23, 30, 35)
    fluidData,    \* getOilProperties.js:12
    loadPromise,  \* getOilProperties.js:13
    loads,        \* the promises created by the async IIFE of line 21, in order
    calls,        \* the promises returned by the loadFluidData calls, in order
    dataPoints,   \* the samples handed to the curve fitting functions
    lsq,          \* outcome of the last leastSquaresFit(dataPoints)
    curve,        \* outcome of the last fitCurve(x, y)
    r2,           \* outcome of the last calculateR2(dataPoints, A, B)
    dataTable,    \* rows of #dataTable
    flowDataTable, \* rows of #flowDataTable
    form,         \* the form fields of the page
    innerHTML,    \* content of the results elements
    liveCharts,   \* per canvas, the Chart instances created and not destroyed
    registered,   \* the canvas ids that have an entry in window.charts
    lastOp,       \* the handler that ran last and what it returned
    args,         \* the arguments a pure function is called with
    results,      \* per function, what it returned for args
    index,        \* home.js:106
    animating,    \* home.js:107
    slides,       \* per slide, its classList
    sidebuttons,  \* per side button, its classList
    timeouts,     \* the setTimeout callbacks of showSlide that are pending
    loaded,       \* whether the window load event has fired
    currentIndex, \* home.js:3
    progressInterval, \* home.js:4
    intervals,    \* the setInterval timers that have not been cleared
    buttons,      \* per video button, its active class and progress bar
    mainVideo,    \* the button whose video is the src of #mainVideo
    elements,     \* the fields and selects of the pipe velocity calculator
    isUpdating,   \* part_000:28
    pipeLog       \* what the pipe calculator handlers have done so far

loadVars == <<env, fluidData, loadPromise, loads, calls>>
fitVars == <<dataPoints, lsq, curve, r2>>
pageVars ==
    <<dataTable, flowDataTable, form, innerHTML, liveCharts, registered, lastOp>>

calcVars == <<args, results>>

carouselVars == <<index, animating, slides, sidebuttons, timeouts, loaded>>
videoVars == <<currentIndex, progressInterval, intervals, buttons, mainVideo>>
pipeVars == <<elements, isUpdating, pipeLog>>
uiVars == <<carouselVars, videoVars, pipeVars>>

vars == <<loadVars, fitVars, pageVars, calcVars, uiVars>>

(***************************************************************************)
(* JavaScript numbers, modelled exactly: a finite number is a rational     *)
(* n/d in lowest terms with d > 0; NaN and +/-Infinity are what IEEE       *)
(* arithmetic yields for 0/0 and x/0.  Rounding and the sign of zero are   *)
(* not modelled.  The binary operators bind their operands through         *)
(* singleton sets, so that each operand is evaluated once.                 *)
(***************************************************************************)
AbsInt(i) == IF i < 0 THEN -i ELSE i

RECURSIVE Gcd(_, _)
Gcd(a, b) == IF b = 0 THEN a ELSE Gcd(b, a % b)

NaN == [k |-> "nan", n |-> 0, d |-> 1]
Infinity(sign) == [k |-> "inf", n |-> sign, d |-> 1]

\* The number n/d, d # 0.
Q(n, d) ==
    LET g == Gcd(AbsInt(n), AbsInt(d))
        s == IF d < 0 THEN -1 ELSE 1
    IN  [k |-> "fin", n |-> s * (n \div g), d |-> s * (d \div g)]

Num(i) == Q(i, 1)

IsNaN(a) == a.k = "nan"
IsFinite(a) == a.k = "fin"
Sign(a) == IF a.n > 0 THEN 1 ELSE IF a.n < 0 THEN -1 ELSE 0

Neg(a) == [a EXCEPT !.n = -a.n]

\* a + b
Add(a, b) ==
    CHOOSE r \in {
        IF IsNaN(x) \/ IsNaN(y) THEN NaN
        ELSE IF x.k = "inf" THEN (IF y.k = "inf" /\ y.n # x.n THEN NaN ELSE x)
        ELSE IF y.k = "inf" THEN y
        ELSE LET l == (x.d \div Gcd(x.d, y.d)) * y.d
             IN  Q(x.n * (l \div x.d) + y.n * (l \div y.d), l)
        : x \in {a}, y \in {b} } : TRUE

\* a - b
Sub(a, b) == Add(a, Neg(b))

\* a * b
Mul(a, b) ==
    CHOOSE r \in {
        IF IsNaN(x) \/ IsNaN(y) THEN NaN
        ELSE IF x.k = "inf" \/ y.k = "inf"
             THEN (IF Sign(x) = 0 \/ Sign(y) = 0 THEN NaN
                   ELSE Infinity(Sign(x) * Sign(y)))
        ELSE LET g1 == Gcd(AbsInt(x.n), y.d)
                 g2 == Gcd(AbsInt(y.n), x.d)
             IN  Q((x.n \div g1) * (y.n \div g2), (x.d \div g2) * (y.d \div g1))
        : x \in {a}, y \in {b} } : TRUE

\* a / b
Div(a, b) ==
    CHOOSE r \in {
        IF IsNaN(x) \/ IsNaN(y) THEN NaN
        ELSE IF x.k = "inf"
             THEN (IF y.k = "inf" THEN NaN
                   ELSE Infinity(IF Sign(y) < 0 THEN -x.n ELSE x.n))
        ELSE IF y.k = "inf" THEN Num(0)
        ELSE IF y.n = 0
             THEN (IF x.n = 0 THEN NaN ELSE Infinity(Sign(x)))
        ELSE Mul(x, Q(y.d, y.n))
        : x \in {a}, y \in {b} } : TRUE

\* Math.abs(a)
Abs(a) == [a EXCEPT !.n = AbsInt(a.n)]

\* a < b (false when either is NaN)
Less(a, b) ==
    IF IsNaN(a) \/ IsNaN(b) THEN FALSE
    ELSE IF a.k = "inf" THEN a.n < 0 /\ ~(b.k = "inf" /\ b.n < 0)
    ELSE IF b.k = "inf" THEN b.n > 0
    ELSE a.n * b.d < b.n * a.d

\* terms[1] + ... + terms[n], accumulated from 0 as forEach and reduce do.
RECURSIVE Accumulate(_, _)
Accumulate(terms, n) ==
    IF n = 0 THEN Num(0) ELSE Add(Accumulate(terms, n - 1), terms[n])

Sum(terms) == Accumulate(terms, Len(terms))

(***************************************************************************)
(* Powers of ten and logarithms, as the Walther transform of               *)
(* getOilProperties.js uses them.  A power 10^e minus an offset that has   *)
(* no small rational value is kept as the term c * (10^e - off), so that   *)
(* Math.log10 and Math.pow(10, .) invert each other exactly.               *)
(***************************************************************************)
Exp10(e, off) == [k |-> "pow10", e |-> e, off |-> off, c |-> Num(1)]

\* Number.isFinite(a)
isFinite(a) == a.k \in {"fin", "pow10"}

\* 10^i for an integer i
RECURSIVE IntPow10(_)
IntPow10(i) ==
    IF i = 0 THEN Num(1)
    ELSE IF i > 0 THEN Mul(Num(10), IntPow10(i - 1))
    ELSE Div(IntPow10(i + 1), Num(10))

\* The i with 10^i = a, for a positive rational a that is a power of ten.
RECURSIVE Exponent10(_)
Exponent10(a) ==
    CASE a = Num(1) -> 0
      [] a # Num(1) /\ a.d = 1 /\ a.n % 10 = 0 ->
            1 + Exponent10(Div(a, Num(10)))
      [] a # Num(1) /\ a.n = 1 -> Exponent10(Mul(a, Num(10))) - 1

\* Math.log10(a)
Log10(a) ==
    IF a.k = "pow10" THEN a.e
    ELSE IF IsNaN(a) THEN NaN
    ELSE IF a.k = "inf" THEN (IF a.n > 0 THEN a ELSE NaN)
    ELSE IF a.n < 0 THEN NaN
    ELSE IF a.n = 0 THEN Infinity(-1)
    ELSE Num(Exponent10(a))

\* Math.pow(10, h)
Pow10(h) ==
    IF h.k = "pow10" THEN Exp10(h, Num(0))
    ELSE IF IsNaN(h) THEN NaN
    ELSE IF h.k = "inf" THEN (IF h.n > 0 THEN h ELSE Num(0))
    ELSE IF h.d = 1 /\ h.n \in -9..9 THEN IntPow10(h.n)
    ELSE Exp10(h, Num(0))

\* a + b for a rational b
Plus(a, b) ==
    IF a.k = "pow10" THEN [a EXCEPT !.off = Sub(@, b)] ELSE Add(a, b)

\* a * b for a rational b
Times(a, b) ==
    IF a.k = "pow10"
    THEN (IF IsFinite(b) /\ b.n # 0 THEN [a EXCEPT !.c = Mul(@, b)]
          ELSE Mul(Num(1), b))
    ELSE Mul(a, b)

(***************************************************************************)
(* Fluid properties: getOilProperties.js lines 1-5 and 53-184.             *)
(***************************************************************************)
DENSITY_COEFFICIENT == Q(65, 100000)

REFERENCE_TEMP_K_celsius == Num(15)
REFERENCE_TEMP_K == Q(28815, 100)

WALTHER_CONSTANT == Q(4, 5)

\* calculateWaltherTransform(viscosity), lines 80-82
calculateWaltherTransform(viscosity) ==
    Log10(Log10(Plus(viscosity, WALTHER_CONSTANT)))

\* inverseWaltherTransform(h), lines 88-90
inverseWaltherTransform_noConstant(h) == Pow10(Pow10(h))

inverseWaltherTransform(h) ==
    Plus(Pow10(Pow10(h)), Neg(WALTHER_CONSTANT))

\* !fluid.DensityAt15C (line 68): the key is missing, or its value is 0 or NaN
NoDensity(fluid) ==
    \/ "DensityAt15C" \notin DOMAIN fluid
    \/ fluid["DensityAt15C"] = Num(0)
    \/ IsNaN(fluid["DensityAt15C"])

\* getDensityAtTemp(name, tK), lines 61-74
getDensityAtTemp(table, name, tK) ==
    IF ~isFinite(tK) THEN NaN
    ELSE IF name \notin DOMAIN table THEN NaN
    ELSE IF NoDensity(table[name]) THEN NaN
    ELSE Mul(table[name]["DensityAt15C"],
             Sub(Num(1),
                 Mul(DENSITY_COEFFICIENT, Sub(tK, REFERENCE_TEMP_K))))

\* fluidData[name]?.["Kinematic Viscosity Limits"], with !kv || kv.length < 2
\* (lines 130-131)
TooFewLimits(table, name) ==
    \/ name \notin DOMAIN table
    \/ "Kinematic Viscosity Limits" \notin DOMAIN table[name]
    \/ Len(table[name]["Kinematic Viscosity Limits"]) < 2

\* getKinViscAtTemp(name, tK), lines 124-162
getKinViscAtTemp(table, name, tK) ==
    IF ~isFinite(tK) THEN NaN
    ELSE IF TooFewLimits(table, name) THEN NaN
    ELSE LET kv == table[name]["Kinematic Viscosity Limits"]
             T1 == kv[1].temperature
             V1 == kv[1].kinematicViscosity
             T2 == kv[2].temperature
             V2 == kv[2].kinematicViscosity
             W1 == calculateWaltherTransform(V1)
             W2 == calculateWaltherTransform(V2)
             m == Div(Sub(W2, W1), Sub(Log10(T2), Log10(T1)))
             n == Sub(W1, Mul(m, Log10(T1)))
             h == Add(Mul(m, Log10(tK)), n)
         IN  IF ~isFinite(T1) \/ ~isFinite(V1) \/ ~isFinite(T2)
                \/ ~isFinite(V2)
             THEN NaN
             ELSE inverseWaltherTransform(h)

WALTHER_ERROR_THRESHOLD == Num(5)

DEBUG_MODE == FALSE

\* a / b for two numbers of which either both are rationals or both are the
\* same power of ten with different factors, as the recomputed and the given
\* viscosity are; the quotient of other terms has no value here (NaN).
Ratio(a, b) ==
    CASE IsNaN(a) \/ IsNaN(b) -> NaN
      [] a.k = "pow10" /\ b.k = "pow10" /\ a.e = b.e /\ a.off = b.off ->
            Div(a.c, b.c)
      [] a.k \in {"fin", "inf"} /\ b.k \in {"fin", "inf"} -> Div(a, b)
      [] a.k = "inf" /\ b.k = "pow10" -> a
      [] OTHER -> NaN

\* Math.abs((checkVisc - V) / V) * 100, lines 100-101, computed as
\* |checkVisc / V - 1| * 100.
PercentError(checkVisc, V) ==
    Mul(Abs(Sub(Ratio(checkVisc, V), Num(1))), Num(100))

\* validateWaltherTransform(name, T1, V1, T2, V2, m, n), lines 96-114: what it
\* writes to the console and whether it throws.  IEEE rounding in m, n and the
\* powers makes the recomputed viscosities differ from what exact arithmetic
\* gives; their relative deviation is the input `rounding`.
validateWaltherTransform_fatal(T1, V1, T2, V2, m, n, rounding) ==
    LET checkVisc1 ==
            Times(inverseWaltherTransform(Add(Mul(m, Log10(T1)), n)),
                  Add(Num(1), rounding))
        err1 == PercentError(checkVisc1, V1)
    IN  [threw |-> Less(WALTHER_ERROR_THRESHOLD, err1),
         warned |-> Less(WALTHER_ERROR_THRESHOLD, err1),
         logged |-> FALSE]

validateWaltherTransform(T1, V1, T2, V2, m, n, rounding) ==
    LET checkVisc1 ==
            Times(inverseWaltherTransform(Add(Mul(m, Log10(T1)), n)),
                  Add(Num(1), rounding))
        checkVisc2 ==
            Times(inverseWaltherTransform(Add(Mul(m, Log10(T2)), n)),
                  Add(Num(1), rounding))
        err1 == PercentError(checkVisc1, V1)
        err2 == PercentError(checkVisc2, V2)
        exceeded == \/ Less(WALTHER_ERROR_THRESHOLD, err1)
                    \/ Less(WALTHER_ERROR_THRESHOLD, err2)
    IN  [threw |-> FALSE,
         warned |-> ~DEBUG_MODE /\ exceeded,
         logged |-> DEBUG_MODE]

\* The console output of getKinViscAtTemp(name, tK) that its call of
\* validateWaltherTransform makes (line 159); none on the early returns.
Silent == [threw |-> FALSE, warned |-> FALSE, logged |-> FALSE]

validationInKinVisc(table, name, tK, rounding) ==
    IF ~isFinite(tK) THEN Silent
    ELSE IF TooFewLimits(table, name) THEN Silent
    ELSE LET kv == table[name]["Kinematic Viscosity Limits"]
             T1 == kv[1].temperature
             V1 == kv[1].kinematicViscosity
             T2 == kv[2].temperature
             V2 == kv[2].kinematicViscosity
             W1 == calculateWaltherTransform(V1)
             W2 == calculateWaltherTransform(V2)
             m == Div(Sub(W2, W1), Sub(Log10(T2), Log10(T1)))
             n == Sub(W1, Mul(m, Log10(T1)))
         IN  IF ~isFinite(T1) \/ ~isFinite(V1) \/ ~isFinite(T2)
                \/ ~isFinite(V2)
             THEN Silent
             ELSE validateWaltherTransform(T1, V1, T2, V2, m, n, rounding)

\* !Number.isFinite(kinVisc) || !Number.isFinite(density), line 176
SubResultFailed_unchecked(kinVisc, density) == FALSE
SubResultFailed(kinVisc, density) == ~isFinite(kinVisc) \/ ~isFinite(density)

\* getDynViscAtTemp(name, tK), lines 172-184
getDynViscAtTemp(table, name, tK) ==
    LET kinVisc == getKinViscAtTemp(table, name, tK)
        density == getDensityAtTemp(table, name, tK)
    IN  IF SubResultFailed(kinVisc, density) THEN NaN
        ELSE Times(Times(kinVisc, Q(1, 1000000)), density)

(***************************************************************************)
(* Fluid table loader: getOilProperties.js lines 12-51.                     *)
(***************************************************************************)
Null == 0

\* "browser": window and fetch exist; "node": only require exists;
\* "none": neither exists.
Envs == {"browser", "node", "none"}

\* let fluidData = {}
EmptyTable == [name \in {} |-> [DensityAt15C |-> 865]]

Limit(temperature, kinematicViscosity) ==
    [temperature |-> temperature, kinematicViscosity |-> kinematicViscosity]

Fluid(density, limits) ==
    ("DensityAt15C" :> density) @@ ("Kinematic Viscosity Limits" :> limits)

\* Reference viscosities: 10^(10^(1/2)) - 0.8, and 9.2 = 10^(10^0) - 0.8.
Thick == Exp10(Exp10(Q(1, 2), Num(0)), WALTHER_CONSTANT)
Thin == Q(46, 5)

\* The fluids a JSON resource may describe (README, Data Format): reference
\* temperatures are powers of ten, whose logarithms are exact.  One fluid has
\* a single reference point, one has both points at one temperature, one a
\* reference viscosity of 0.2, one a viscosity that is no number and a
\* density of 0, and one no density.
Fluids ==
    ("ISO VG 32" :> Fluid(Num(800),
        <<Limit(Num(100), Thick), Limit(Num(1000), Thin)>>))
    @@ ("ISO VG 46" :> Fluid(Num(870), <<Limit(Num(100), Thick)>>))
    @@ ("ISO VG 68" :> Fluid(Num(875),
        <<Limit(Num(100), Thick), Limit(Num(100), Thin)>>))
    @@ ("ISO VG 100" :> Fluid(Num(880),
        <<Limit(Num(100), Thin), Limit(Num(1000), Q(1, 5))>>))
    @@ ("ISO VG 150" :> Fluid(Num(0),
        <<Limit(Num(100), NaN), Limit(Num(1000), Thin)>>))
    @@ ("ISO VG 220" :>
        ("Kinematic Viscosity Limits" :>
            <<Limit(Num(100), Thin), Limit(Num(1000), Thin)>>))

\* What the JSON resource may parse to: a keyed mapping from fluid name to
\* its reference data (possibly with no key at all).
Tables ==
    { [name \in names |-> Fluids[name]] :
        names \in {{}, {"ISO VG 32"}, DOMAIN Fluids} }

\* Object.keys(fluidData).length
KeyCount(table) == Cardinality(DOMAIN table)

\* line 16: if (Object.keys(fluidData).length > 0) return;
AlreadyLoaded_never == FALSE
AlreadyLoaded == KeyCount(fluidData) > 0

\* line 19: if (loadPromise) return loadPromise;
AlreadyLoading_never == FALSE
AlreadyLoading == loadPromise # Null

\* lines 42-44: the catch block logs and rethrows, so the promise of the
\* IIFE rejects.
CatchOutcome_swallowed == "resolved"
CatchOutcome == "rejected"

Pending == {"fetch", "json"}
Settled == {"resolved", "rejected"}

InFlight == {l \in 1..Len(loads) : loads[l].phase \in Pending}

\* A promise of the IIFE.  phase is where its body stands; failed records
\* that the body threw and error what it threw ("" when nothing); before
\* and after record fluidData when the body started and when it finished
\* (observation only).
NewLoad(phase, error, after) ==
    [phase |-> phase, failed |-> error # "", error |-> error,
     before |-> fluidData, after |-> after]

\* A promise returned by loadFluidData.  on is the IIFE promise it returns
\* (Null when it returns undefined at line 16); started is the IIFE promise
\* the call created (Null when none).  inFlightAtCall, succeededAtCall and
\* dataAtCall record what the call found (observation only).
NewCall(on, started, outcome) ==
    [on |-> on, started |-> started, outcome |-> outcome,
     inFlightAtCall |-> InFlight,
     succeededAtCall |->
        {l \in 1..Len(loads) : loads[l].phase = "resolved" /\ ~loads[l].failed},
     dataAtCall |-> fluidData]

\* The IIFE body run to its end without an await (the Node branch and the
\* "no method" branch): its outcome and the table it stored.
\* error # "": readFileSync or JSON.parse threw, or line 36 threw.
SyncLoad(error, table) ==
    /\ Len(loads) < MaxLoads
    /\ fluidData' = IF error = "" THEN table ELSE fluidData
    /\ loads' = Append(loads,
          NewLoad(IF error = "" THEN "resolved" ELSE CatchOutcome, error,
                  IF error = "" THEN table ELSE fluidData))
       \* finally (line 46) has already run when the assignment of line 21
       \* stores the promise of the IIFE
    /\ loadPromise' = Len(loads) + 1
    /\ calls' = Append(calls, NewCall(Len(loads) + 1, Len(loads) + 1, "pending"))

\* loadFluidData(), lines 15-51, up to its return.
LoadFluidData ==
    /\ Len(calls) < MaxCalls
    /\ UNCHANGED <<uiVars, env, fitVars, pageVars, calcVars>>
    /\ IF AlreadyLoaded
       THEN /\ calls' = Append(calls, NewCall(Null, Null, "resolved"))
            /\ UNCHANGED <<fluidData, loadPromise, loads>>
       ELSE IF AlreadyLoading
       THEN /\ calls' = Append(calls, NewCall(loadPromise, Null, "pending"))
            /\ UNCHANGED <<fluidData, loadPromise, loads>>
       ELSE \/ /\ env = "browser"
               \* the IIFE runs up to `await fetch(...)` (line 25)
               /\ Len(loads) < MaxLoads
               /\ loads' = Append(loads, NewLoad("fetch", "", fluidData))
               /\ loadPromise' = Len(loads) + 1
               /\ calls' = Append(calls,
                     NewCall(Len(loads) + 1, Len(loads) + 1, "pending"))
               /\ UNCHANGED fluidData
            \/ /\ env = "node"
               /\ \E table \in Tables : SyncLoad("", table)
            \/ /\ env = "node"
               /\ \E error \in {"readFileSync", "JSON.parse"} :
                     SyncLoad(error, EmptyTable)
            \/ /\ env = "none"
               /\ SyncLoad("No compatible data loading method available",
                           EmptyTable)

\* The body of the IIFE throws at or after an await: catch, then finally.
Fail(l, error) ==
    /\ loads' = [loads EXCEPT ![l].phase = CatchOutcome, ![l].failed = TRUE,
                              ![l].error = error, ![l].after = fluidData]
    /\ loadPromise' = Null
    /\ UNCHANGED <<uiVars, env, fluidData, calls, fitVars, pageVars, calcVars>>

\* line 25: fetch rejects (network error).
FetchRejects(l) ==
    /\ loads[l].phase = "fetch"
    /\ Fail(l, "fetch")

\* lines 25-28: fetch resolves with a response whose ok is false.
FetchNotOk(l) ==
    /\ loads[l].phase = "fetch"
    /\ Fail(l, "Failed to load fluid data")

\* lines 25-29: fetch resolves with an ok response; the body awaits json().
FetchOk(l) ==
    /\ loads[l].phase = "fetch"
    /\ loads' = [loads EXCEPT ![l].phase = "json"]
    /\ UNCHANGED <<uiVars, env, fluidData, loadPromise, calls, fitVars, pageVars, calcVars>>

\* line 29: response.json() rejects (the body is not JSON).
JsonRejects(l) ==
    /\ loads[l].phase = "json"
    /\ Fail(l, "response.json")

\* lines 29, 39-41, 46: response.json() resolves; the table is stored and
\* finally clears the marker.
JsonResolves(l, table) ==
    /\ loads[l].phase = "json"
    /\ fluidData' = table
    /\ loads' = [loads EXCEPT ![l].phase = "resolved", ![l].after = table]
    /\ loadPromise' = Null
    /\ UNCHANGED <<uiVars, env, calls, fitVars, pageVars, calcVars>>

\* The promise a call returned settles as the IIFE promise it adopted
\* (`return loadPromise` in an async function, lines 19 and 50).
Settle(c) ==
    /\ calls[c].outcome = "pending"
    /\ loads[calls[c].on].phase \in Settled
    /\ calls' = [calls EXCEPT ![c].outcome = loads[calls[c].on].phase]
    /\ UNCHANGED <<uiVars, env, fluidData, loadPromise, loads, fitVars, pageVars, calcVars>>

\* The module state of getOilProperties.js before any call.
LoadInit ==
    /\ fluidData = EmptyTable
    /\ loadPromise = Null
    /\ loads = <<>>
    /\ calls = <<>>

\* No curve fitting function has been called.
FitIdle ==
    /\ dataPoints = <<>>
    /\ lsq = [state |-> "idle"]
    /\ curve = [state |-> "idle"]
    /\ r2 = [state |-> "idle"]

\* The elements the porous-media page writes and the canvases it draws on.
ElementIds == {"results", "flowResults", "fitResults"}
CanvasIds == {"dataPlot", "flowPlot", "fitPlot"}

Untouched == [kind |-> "initial"]

\* The porous-media page is not in use.
PageIdle ==
    /\ dataTable = <<>>
    /\ flowDataTable = <<>>
    /\ form = [area |-> 0]
    /\ innerHTML = [id \in ElementIds |-> Untouched]
    /\ liveCharts = [id \in CanvasIds |-> 0]
    /\ registered = {}
    /\ lastOp = [name |-> "none"]

\* The home page carousel is not in use.
CarouselIdle ==
    /\ index = 0
    /\ animating = FALSE
    /\ slides = <<>>
    /\ sidebuttons = <<>>
    /\ timeouts = {}
    /\ loaded = FALSE

\* The home page video player is not in use.
VideoIdle ==
    /\ currentIndex = 0
    /\ progressInterval = 0
    /\ intervals = {}
    /\ buttons = <<>>
    /\ mainVideo = 0

\* The pipe velocity calculator is not in use.
PipeIdle ==
    /\ elements = <<>>
    /\ isUpdating = FALSE
    /\ pipeLog = <<>>

UiIdle == CarouselIdle /\ VideoIdle /\ PipeIdle

\* The pure functions of the unit converter and of the calculators, by the
\* name under which results records what each returned.
Functions ==
    {"calcDarcyForchheimer", "performCurveFitting", "generateCurve",
     "generateCurveAgain", "convertUnit", "convertUnitBack",
     "getDensityAtTemp", "getKinViscAtTemp", "getDynViscAtTemp",
     "calculateReynolds", "temperatureInput", "temperatureInputAgain"}

NotCalled == [state |-> "idle"]

\* No pure function has been called.
CalcIdle ==
    /\ args = [fn |-> "none"]
    /\ results = [f \in Functions |-> NotCalled]

Init ==
    /\ env \in Envs
    /\ LoadInit
    /\ UiIdle
    /\ FitIdle
    /\ PageIdle
    /\ CalcIdle

Next ==
    \/ LoadFluidData
    \/ \E l \in 1..Len(loads) : FetchRejects(l)
    \/ \E l \in 1..Len(loads) : FetchNotOk(l)
    \/ \E l \in 1..Len(loads) : FetchOk(l)
    \/ \E l \in 1..Len(loads) : JsonRejects(l)
    \/ \E l \in 1..Len(loads), table \in Tables : JsonResolves(l, table)
    \/ \E c \in 1..Len(calls) : Settle(c)

Spec == Init /\ [][Next]_vars

(***************************************************************************)
(* curve_fitting.js: leastSquaresFit and calculateR2.                      *)
(***************************************************************************)
\* 1e-10 is 10^-EpsilonExponent (line 41).
EpsilonExponent == 10

\* The least k with k * 10^e >= d, for d >= 0.
RECURSIVE CeilPow10(_, _)
CeilPow10(d, e) ==
    IF e = 0 THEN d ELSE CeilPow10((d + 9) \div 10, e - 1)

\* a < 1e-10 for a >= 0: n/d < 10^-10 iff n * 10^10 < d.
BelowEpsilon(a) ==
    /\ IsFinite(a)
    /\ a.n < CeilPow10(a.d, EpsilonExponent)

Throw(message) == [state |-> "threw", message |-> message]

TooFewMessage == "At least 3 data points required for curve fitting"
SingularMessage == "Singular matrix - cannot solve for coefficients"

\* line 40: n * sumX4 - sumX2 * sumX2
Denominator(points) ==
    LET sumX2 == Sum([i \in DOMAIN points |-> Mul(points[i].x, points[i].x)])
        sumX4 == Sum([i \in DOMAIN points |->
                    Mul(Mul(Mul(points[i].x, points[i].x), points[i].x),
                        points[i].x)])
    IN  Sub(Mul(Num(Len(points)), sumX4), Mul(sumX2, sumX2))

\* line 41: if (Math.abs(denom) < 1e-10) throw
IsSingular_unchecked(denom) == FALSE
IsSingular(denom) == BelowEpsilon(Abs(denom))

\* lines 22-35 and 45-46: the sums and the coefficients returned once the
\* checks have passed.
Solve(points) ==
    LET n == Num(Len(points))
        sumX2 == Sum([i \in DOMAIN points |-> Mul(points[i].x, points[i].x)])
        sumX4 == Sum([i \in DOMAIN points |->
                    Mul(Mul(Mul(points[i].x, points[i].x), points[i].x),
                        points[i].x)])
        sumY == Sum([i \in DOMAIN points |-> points[i].y])
        sumX2Y == Sum([i \in DOMAIN points |->
                    Mul(Mul(points[i].x, points[i].x), points[i].y)])
        denom == Denominator(points)
    IN  [state |-> "returned",
         A |-> Div(Sub(Mul(sumY, sumX4), Mul(sumX2Y, sumX2)), denom),
         B |-> Div(Sub(Mul(n, sumX2Y), Mul(sumY, sumX2)), denom)]

\* leastSquaresFit(dataPoints), lines 17-49
leastSquaresFit(points) ==
    IF Len(points) < 3 THEN Throw(TooFewMessage)
    ELSE IF IsSingular(Denominator(points)) THEN Throw(SingularMessage)
    ELSE Solve(points)

\* line 63: A * p.x + B * p.x * p.x
Predict(A, B, x) == Add(Mul(A, x), Mul(Mul(B, x), x))

\* calculateR2(dataPoints, A, B), lines 59-68
calculateR2(points, A, B) ==
    LET yMean == Div(Sum([i \in DOMAIN points |-> points[i].y]),
                     Num(Len(points)))
        ssTot == Sum([i \in DOMAIN points |->
                    Mul(Sub(points[i].y, yMean), Sub(points[i].y, yMean))])
        ssRes == Sum([i \in DOMAIN points |->
                    LET r == Sub(points[i].y, Predict(A, B, points[i].x))
                    IN  Mul(r, r)])
    IN  Sub(Num(1), Div(ssRes, ssTot))

(***************************************************************************)
(* Porous-media page script: fitCurve.                                     *)
(***************************************************************************)
\* line 43: sumX2 * sumX4 - sumX3 * sumX3
CurveDenominator(x) ==
    LET xi2 == [i \in DOMAIN x |-> Mul(x[i], x[i])]
        xi3 == [i \in DOMAIN x |-> Mul(xi2[i], x[i])]
        xi4 == [i \in DOMAIN x |-> Mul(xi3[i], x[i])]
    IN  Sub(Mul(Sum(xi2), Sum(xi4)), Mul(Sum(xi3), Sum(xi3)))

\* fitCurve(x, y), lines 24-49 of the page script
fitCurve_withIntercept(x, y) ==
    Solve([i \in DOMAIN x |-> [x |-> x[i], y |-> y[i]]])

fitCurve(x, y) ==
    LET n == Len(x)
        xi2 == [i \in 1..n |-> Mul(x[i], x[i])]
        xi3 == [i \in 1..n |-> Mul(xi2[i], x[i])]
        sumX2 == Sum(xi2)
        sumX3 == Sum(xi3)
        sumXY == Sum([i \in 1..n |-> Mul(x[i], y[i])])
        sumX2Y == Sum([i \in 1..n |-> Mul(xi2[i], y[i])])
        sumX4 == Sum([i \in 1..n |-> Mul(xi3[i], x[i])])
        denom == CurveDenominator(x)
    IN  [state |-> "returned",
         A |-> Div(Sub(Mul(sumX4, sumXY), Mul(sumX3, sumX2Y)), denom),
         B |-> Div(Sub(Mul(sumX2, sumX2Y), Mul(sumX3, sumXY)), denom)]

(***************************************************************************)
(* The curve fitting functions applied to bounded sets of samples.         *)
(***************************************************************************)
SeqsUpTo(S, n) == UNION {[1..k -> S] : k \in 0..n}

\* Samples on a small grid, in any order, duplicates allowed.
GridSamples ==
    SeqsUpTo([x : {Num(1), Num(2)}, y : {Num(1), Num(2)}], MaxPoints)

\* Coefficients of the known quadratics y = A0*x + B0*x^2.
Coefficients == {Num(-1), Num(0), Q(1, 2)}

OnCurve(points, A0, B0) ==
    \A i \in DOMAIN points : points[i].y = Predict(A0, B0, points[i].x)

\* Three or more noise-free samples of a known quadratic.
ExactSamples ==
    UNION {
      {[i \in 1..k |-> [x |-> xs[i], y |-> Predict(A0, B0, xs[i])]] :
          xs \in [1..k -> {Num(1), Num(2), Num(3)}],
          A0 \in Coefficients, B0 \in Coefficients} :
      k \in 3..MaxPoints}

\* The samples of the README example (lines 43-47).
ReadmeSamples ==
    << [x |-> Q(1, 2), y |-> Q(51, 5)],
       [x |-> Num(1), y |-> Q(51, 2)],
       [x |-> Q(3, 2), y |-> Q(229, 5)] >>

Xs(points) == [i \in DOMAIN points |-> points[i].x]
Ys(points) == [i \in DOMAIN points |-> points[i].y]

\* CurveFitting.leastSquaresFit(dataPoints)
LeastSquaresFit ==
    /\ lsq' = leastSquaresFit(dataPoints)
    /\ UNCHANGED <<uiVars, loadVars, pageVars, calcVars, dataPoints, curve, r2>>

\* fitCurve(x, y) on the same samples
FitCurve ==
    /\ curve' = fitCurve(Xs(dataPoints), Ys(dataPoints))
    /\ UNCHANGED <<uiVars, loadVars, pageVars, calcVars, dataPoints, lsq, r2>>

\* CurveFitting.calculateR2(dataPoints, A, B)
CalculateR2(A, B) ==
    /\ r2' = [state |-> "returned", A |-> A, B |-> B,
              value |-> calculateR2(dataPoints, A, B)]
    /\ UNCHANGED <<uiVars, loadVars, pageVars, calcVars, dataPoints, lsq, curve>>

\* with the coefficients leastSquaresFit returned (performCurveFitting,
\* lines 251-254)
CalculateR2OfFit ==
    /\ lsq.state = "returned"
    /\ CalculateR2(lsq.A, lsq.B)

\* with coefficients of the caller's choice
CalculateR2OfGiven ==
    \E c \in {Num(0), Num(1)} : CalculateR2(c, c)

FitInit ==
    /\ env = "browser"
    /\ LoadInit
    /\ UiIdle
    /\ dataPoints \in GridSamples \cup ExactSamples \cup {ReadmeSamples}
    /\ lsq = [state |-> "idle"]
    /\ curve = [state |-> "idle"]
    /\ r2 = [state |-> "idle"]
    /\ PageIdle
    /\ CalcIdle

FitNext ==
    \/ LeastSquaresFit
    \/ FitCurve
    \/ CalculateR2OfFit
    \/ CalculateR2OfGiven

SpecFit == FitInit /\ [][FitNext]_vars

(***************************************************************************)
(* The porous-media page: the data tables, the form fields, the results    *)
(* elements and the charts, with the handlers that read and write them.    *)
(***************************************************************************)
\* A dataTable row as parseFloat reads its two inputs; a blank input reads NaN.
RowValues ==
    { [x |-> NaN, y |-> NaN],
      [x |-> Num(1), y |-> Num(1)],
      [x |-> Num(2), y |-> Num(3)] }

\* The form fields and what OilProps returns for the selected oil and
\* temperature (NaN while the fluid dataTable holds no such fluid).
Forms ==
    { [area |-> Num(2), L |-> Q(1, 10),
       densityInput |-> NaN, viscosityInput |-> NaN,
       oilDensity |-> Num(865), oilViscosity |-> Q(1, 50)],
      [area |-> NaN, L |-> Num(0),
       densityInput |-> Num(998), viscosityInput |-> Num(0),
       oilDensity |-> NaN, oilViscosity |-> NaN] }

\* !isNaN(x) && !isNaN(y)
IsValidRow(row) == ~IsNaN(row.x) /\ ~IsNaN(row.y)

\* getTableData(tableId), curve_fitting.js lines 203-224
getTableData(rows) == SelectSeq(rows, IsValidRow)

\* readTableData(), page script lines 12-21
readTableData(rows) ==
    LET valid == SelectSeq(rows, IsValidRow)
    IN  [x |-> Xs(valid), y |-> Ys(valid)]

\* readFlowTableData(area), page script lines 158-171: a row holds the flow
\* rate q (as x) and the pressure loss dp (as y); u = q / area.
readFlowTableData(rows, area) ==
    LET valid == SelectSeq(rows, IsValidRow)
    IN  [x |-> [i \in DOMAIN valid |-> Div(valid[i].x, area)],
         y |-> Ys(valid)]

\* a || b on numbers: b when a is NaN or 0
OrElse(a, b) == IF IsNaN(a) \/ a = Num(0) THEN b ELSE a

\* !area || area <= 0, page script line 176
InvalidArea(area) == IsNaN(area) \/ area = Num(0) \/ Less(area, Num(0))

\* x.length < 3, page script lines 82 and 179
TooFewValid_min2(x) == Len(x) < 2
TooFewValid(x) == Len(x) < 3

\* calcDarcyForchheimer(A, B, mu, rho, L), page script lines 52-56
calcDarcyForchheimer_noFactor(A, B, mu, rho, L) ==
    [d |-> Div(A, Mul(mu, L)), f |-> Div(B, Mul(rho, L))]

calcDarcyForchheimer(A, B, mu, rho, L) ==
    [d |-> Div(A, Mul(mu, L)), f |-> Div(Mul(Num(2), B), Mul(rho, L))]

\* performCurveFitting lines 256-260: d and f computed inline
inlineCoefficients(A, B, L, density, viscosity) ==
    [d |-> Div(A, Mul(viscosity, L)), f |-> Div(Mul(Num(2), B), Mul(density, L))]

\* new Chart(ctx, ...) on a canvas: one more live instance
CreateChart(live, canvasId) == [live EXCEPT ![canvasId] = @ + 1]

\* plotWithCurve without lines 112-114
PlotWithCurve_noDestroy(canvasId) ==
    IF canvasId \notin CanvasIds
    THEN UNCHANGED <<liveCharts, registered>>
    ELSE /\ liveCharts' = CreateChart(liveCharts, canvasId)
         /\ registered' = registered \cup {canvasId}

\* plotWithCurve(canvasId, ...), curve_fitting.js lines 104-187: the chart
\* registered for the canvas is destroyed, a new one created and registered.
PlotWithCurve(canvasId) ==
    IF canvasId \notin CanvasIds
    THEN UNCHANGED <<liveCharts, registered>>
    ELSE /\ liveCharts' =
              CreateChart(IF canvasId \in registered
                          THEN [liveCharts EXCEPT ![canvasId] = @ - 1]
                          ELSE liveCharts, canvasId)
         /\ registered' = registered \cup {canvasId}

\* innerHTML of the element with the given id, when there is one
Write(id, content) ==
    IF id \in ElementIds THEN [innerHTML EXCEPT ![id] = content] ELSE innerHTML

\* CurveFitting.leastSquaresFit(CurveFitting.getTableData("dataTable"))
TableLeastSquaresFit ==
    /\ lastOp' = [name |-> "leastSquaresFit", fitted |-> FALSE,
                  ret |-> leastSquaresFit(getTableData(dataTable))]
    /\ UNCHANGED <<uiVars, loadVars, fitVars, calcVars, dataTable, flowDataTable, form, innerHTML,
                   liveCharts, registered>>

\* CurveFitting.plotWithCurve(canvasId, CurveFitting.getTableData("dataTable"),
\* A, B, ...) called on its own
CallPlotWithCurve(canvasId) ==
    /\ PlotWithCurve(canvasId)
    /\ lastOp' = [name |-> "plotWithCurve", fitted |-> FALSE,
                  ret |-> [kind |-> "undefined"]]
    /\ UNCHANGED <<uiVars, loadVars, fitVars, calcVars, dataTable, flowDataTable, form,
                   innerHTML>>

\* What the catch block of performCurveFitting hands to the caller (line 288)
CatchReturn_rethrown == [kind |-> "threw"]
CatchReturn == [kind |-> "null"]

\* performCurveFitting(dataPoints, L, density, viscosity, canvasId,
\* resultsId, ...), curve_fitting.js lines 244-290
PerformCurveFitting(canvasId, resultsId) ==
    LET points == getTableData(dataTable)
        fit == leastSquaresFit(points)
        density == OrElse(form.densityInput, form.oilDensity)
        viscosity == OrElse(form.viscosityInput, form.oilViscosity)
    IN  /\ UNCHANGED <<uiVars, loadVars, fitVars, calcVars, dataTable, flowDataTable, form>>
        /\ IF Len(points) < 3 \/ fit.state = "threw"
           THEN \* catch, lines 282-289
                /\ innerHTML' = Write(resultsId,
                      [kind |-> "error",
                       message |-> IF Len(points) < 3
                                   THEN "At least 3 data points required"
                                   ELSE fit.message])
                /\ lastOp' = [name |-> "performCurveFitting",
                              fitted |-> FALSE, ret |-> CatchReturn]
                /\ UNCHANGED <<liveCharts, registered>>
           ELSE LET R2 == calculateR2(points, fit.A, fit.B)
                    co == inlineCoefficients(fit.A, fit.B, form.L, density,
                                             viscosity)
                    d == co.d
                    f == co.f
                IN  /\ PlotWithCurve(canvasId)
                    /\ innerHTML' = Write(resultsId,
                          [kind |-> "fit", A |-> fit.A, B |-> fit.B,
                           R2 |-> R2, d |-> d, f |-> f,
                           kappa |-> Div(Num(1), d)])
                    /\ lastOp' = [name |-> "performCurveFitting",
                                  fitted |-> TRUE,
                                  ret |-> [kind |-> "result", A |-> fit.A,
                                           B |-> fit.B, d |-> d, f |-> f,
                                           R2 |-> R2]]

\* What calculateAll and calculateFromFlow do once they hold x and y:
\* fit, derive d and f, write the results element, plot on a new chart.
FitAndShow(name, data, dens, dynVisc, elementId, canvasId) ==
    IF TooFewValid(data.x)
    THEN \* alert("Enter at least 3 valid data points."); return
         /\ lastOp' = [name |-> name, fitted |-> FALSE,
                       ret |-> [kind |-> "alert"]]
         /\ UNCHANGED <<innerHTML, liveCharts, registered>>
    ELSE LET fit == fitCurve(data.x, data.y)
             df == calcDarcyForchheimer(fit.A, fit.B, dynVisc, dens, form.L)
         IN  /\ liveCharts[canvasId] < MaxCharts
             /\ innerHTML' = Write(elementId,
                   [kind |-> "coefficients", A |-> fit.A, B |-> fit.B,
                    mu |-> dynVisc, rho |-> dens, d |-> df.d, f |-> df.f])
             /\ liveCharts' = CreateChart(liveCharts, canvasId)
             /\ lastOp' = [name |-> name, fitted |-> TRUE,
                           ret |-> [kind |-> "undefined"]]
             /\ UNCHANGED registered

\* calculateAll(), page script lines 80-103
CalculateAll ==
    /\ FitAndShow("calculateAll", readTableData(dataTable),
                  form.oilDensity, form.oilViscosity, "results", "dataPlot")
    /\ UNCHANGED <<uiVars, loadVars, fitVars, calcVars, dataTable, flowDataTable, form>>

\* calculateFromFlow(), page script lines 174-219
CalculateFromFlow ==
    /\ UNCHANGED <<uiVars, loadVars, fitVars, calcVars, dataTable, flowDataTable, form>>
    /\ IF InvalidArea(form.area)
       THEN \* alert("Enter a valid cross-sectional area."); return
            /\ lastOp' = [name |-> "calculateFromFlow", fitted |-> FALSE,
                          ret |-> [kind |-> "alert"]]
            /\ UNCHANGED <<innerHTML, liveCharts, registered>>
       ELSE FitAndShow("calculateFromFlow",
                       readFlowTableData(flowDataTable, form.area),
                       OrElse(form.densityInput, form.oilDensity),
                       OrElse(form.viscosityInput, form.oilViscosity),
                       "flowResults", "flowPlot")

\* The page after the user has filled one of the two tables and the form.
PageInit ==
    /\ env = "browser"
    /\ LoadInit
    /\ UiIdle
    /\ FitIdle
    /\ CalcIdle
    /\ \/ dataTable \in SeqsUpTo(RowValues, MaxRows) /\ flowDataTable = <<>>
       \/ dataTable = <<>> /\ flowDataTable \in SeqsUpTo(RowValues, MaxRows)
    /\ form \in Forms
    /\ innerHTML = [id \in ElementIds |-> Untouched]
    /\ liveCharts = [id \in CanvasIds |-> 0]
    /\ registered = {}
    /\ lastOp = [name |-> "none"]

PageNext ==
    \/ TableLeastSquaresFit
    \/ PerformCurveFitting("fitPlot", "fitResults")
    \/ PerformCurveFitting("absent", "absent")
    \/ CalculateAll
    \/ CalculateFromFlow

SpecPage == PageInit /\ [][PageNext]_vars

\* The curve fitting module used on its own: any sequence of plotWithCurve
\* and performCurveFitting calls on the samples of the data table.
ChartsInit ==
    /\ env = "browser"
    /\ LoadInit
    /\ UiIdle
    /\ FitIdle
    /\ CalcIdle
    /\ dataTable \in SeqsUpTo(RowValues, MaxRows)
    /\ flowDataTable = <<>>
    /\ form \in Forms
    /\ innerHTML = [id \in ElementIds |-> Untouched]
    /\ liveCharts = [id \in CanvasIds |-> 0]
    /\ registered = {}
    /\ lastOp = [name |-> "none"]

ChartsNext ==
    \/ PerformCurveFitting("fitPlot", "fitResults")
    \/ PerformCurveFitting("absent", "absent")
    \/ CallPlotWithCurve("fitPlot")
    \/ CallPlotWithCurve("absent")

SpecCharts == ChartsInit /\ [][ChartsNext]_vars

(***************************************************************************)
(* The pure functions, each applied to arguments drawn from a small set.   *)
(***************************************************************************)
Returned(value) == [state |-> "returned", value |-> value]

\* Fitted coefficients, fluid properties and a sample length, among them the
\* values of the README example (A = 2.5, B = 0.8, mu = 0.001, rho = 998,
\* L = 0.1) and the zeros an empty input field gives.
CoefficientArgs ==
    [fn : {"coefficients"},
     A : {Num(0), Q(5, 2)}, B : {Q(4, 5), Num(-1)},
     mu : {Num(0), Q(1, 1000), NaN}, rho : {Num(0), Num(998)},
     L : {Num(0), Q(1, 10)}]

\* generateCurve(A, B, xMin, xMax, numPoints), curve_fitting.js lines 83-92;
\* the point pushed at loop index i is element i + 1 of the sequence.
generateCurve_exclusive(A, B, xMin, xMax, numPoints) ==
    LET step == Div(Sub(xMax, xMin), Num(numPoints))
    IN  [i \in 1..numPoints |->
            LET x == Add(xMin, Mul(Num(i - 1), step))
            IN  [x |-> x, y |-> Add(Mul(A, x), Mul(Mul(B, x), x))]]

generateCurve(A, B, xMin, xMax, numPoints) ==
    LET step == Div(Sub(xMax, xMin), Num(numPoints))
    IN  [i \in 1..(numPoints + 1) |->
            LET x == Add(xMin, Mul(Num(i - 1), step))
            IN  [x |-> x, y |-> Add(Mul(A, x), Mul(Mul(B, x), x))]]

\* Coefficients, a range given in either order or empty, and a point count.
CurveArgs ==
    [fn : {"curve"},
     A : {Q(5, 2), Num(-1)}, B : {Q(4, 5), Num(0)},
     xMin : {Q(-1, 2), Num(0), Num(2)}, xMax : {Num(0), Q(1, 3), Num(2)},
     numPoints : 0..MaxNumPoints]

\* CurveFitting.generateCurve(A, B, xMin, xMax, numPoints)
GenerateCurve ==
    /\ args.fn = "curve"
    /\ results' = [results EXCEPT !["generateCurve"] =
          Returned(generateCurve(args.A, args.B, args.xMin, args.xMax,
                                 args.numPoints))]
    /\ UNCHANGED <<uiVars, loadVars, fitVars, pageVars, args>>

\* a second call with the same arguments
GenerateCurveAgain ==
    /\ args.fn = "curve"
    /\ results["generateCurve"].state = "returned"
    /\ results' = [results EXCEPT !["generateCurveAgain"] =
          Returned(generateCurve(args.A, args.B, args.xMin, args.xMax,
                                 args.numPoints))]
    /\ UNCHANGED <<uiVars, loadVars, fitVars, pageVars, args>>

(***************************************************************************)
(* The unit converter (astro.config.mjs lines 11-341).  A factor table is  *)
(* a function from its unit strings to their factors.  "gpm" and "gal/h"   *)
(* of flowFactors (0.00378541/60 and 0.00378541/3600) are left out: their  *)
(* denominators exceed the integers of the model checker.                  *)
(***************************************************************************)
lengthFactors ==
    ("m" :> Num(1)) @@ ("cm" :> Q(1, 100)) @@ ("mm" :> Q(1, 1000))
    @@ ("in" :> Q(254, 10000)) @@ ("ft" :> Q(3048, 10000))

areaFactors ==
    ("m^2" :> Num(1)) @@ ("cm^2" :> Q(1, 10000)) @@ ("mm^2" :> Q(1, 1000000))
    @@ ("in^2" :> Q(64516, 100000000)) @@ ("ft^2" :> Q(92903, 1000000))

densityFactors ==
    ("kg/m^3" :> Num(1)) @@ ("g/cm^3" :> Num(1000))
    @@ ("lb/ft^3" :> Q(160185, 10000))

kinViscFactors ==
    ("m^2/s" :> Num(1)) @@ ("mm^2/s" :> Q(1, 1000000))
    @@ ("cSt" :> Q(1, 1000000))

dynViscFactors ==
    ("Pa*s" :> Num(1)) @@ ("mPa*s" :> Q(1, 1000)) @@ ("cP" :> Q(1, 1000))

volumeFactors ==
    ("m^3" :> Num(1)) @@ ("L" :> Q(1, 1000)) @@ ("mL" :> Q(1, 1000000))
    @@ ("in^3" :> Q(16387, 1000000000)) @@ ("ft^3" :> Q(283168, 10000000))
    @@ ("gal(US)" :> Q(378541, 100000000))
    @@ ("gal(UK)" :> Q(454609, 100000000))

flowFactors ==
    ("m^3/s" :> Num(1)) @@ ("L/s" :> Q(1, 1000))
    @@ ("L/min" :> Div(Q(1, 1000), Num(60)))
    @@ ("ft^3/s" :> Q(283168, 10000000)) @@ ("kg/s" :> Num(1))
    @@ ("lb/s" :> Q(453592, 1000000))

pressureFactors ==
    ("Pa" :> Num(1)) @@ ("kPa" :> Num(1000)) @@ ("MPa" :> Num(1000000))
    @@ ("GPa" :> Num(1000000000)) @@ ("bar" :> Num(100000))
    @@ ("psi" :> Q(689476, 100)) @@ ("atm" :> Num(101325))

forceFactors ==
    ("N" :> Num(1)) @@ ("kN" :> Num(1000)) @@ ("lbf" :> Q(444822, 100000))
    @@ ("kgf" :> Q(980665, 100000))

temperatureUnits == {"C", "F", "K"}

\* lines 119-129, in the order Object.entries yields the tables
unitTypeRegistry ==
    << lengthFactors, areaFactors, densityFactors, kinViscFactors,
       dynViscFactors, volumeFactors, flowFactors, pressureFactors,
       forceFactors >>

\* Property names every object inherits from Object.prototype: the in
\* operator finds them in every factor table, where they name functions.
ObjectPrototypeKeys == {"toString", "valueOf", "constructor"}

\* unit in factorTable
In_anything(unit, factorTable) == TRUE

In(unit, factorTable) ==
    unit \in DOMAIN factorTable \/ unit \in ObjectPrototypeKeys

\* factorTable[unit] as arithmetic reads it: an inherited function is NaN
Lookup(factorTable, unit) ==
    IF unit \in DOMAIN factorTable THEN factorTable[unit] ELSE NaN

\* unit.toUpperCase() for the strings whose upper case is C, F or K
toUpperCase ==
    ("C" :> "C") @@ ("c" :> "C") @@ ("F" :> "F") @@ ("f" :> "F")
    @@ ("K" :> "K") @@ ("k" :> "K")

EmptyUnitMessage == "Unit must be a non-empty string"
UnknownUnitMessage == "Unknown unit"
UnsupportedMessage == "Unsupported conversion"

\* normalizeUnit(unit), lines 139-151
normalizeUnit(unit) ==
    IF unit = "" THEN Throw(EmptyUnitMessage)
    ELSE IF unit \in DOMAIN toUpperCase THEN Returned(toUpperCase[unit])
    ELSE Returned(unit)

\* temperatureToKelvin(unit, value), lines 160-171, for the units its one
\* caller passes
temperatureToKelvin(unit, value) ==
    CASE unit = "K" -> value
      [] unit = "C" -> Add(value, Q(27315, 100))
      [] unit = "F" ->
           Add(Div(Mul(Sub(value, Num(32)), Num(5)), Num(9)), Q(27315, 100))

\* temperatureFromKelvin(unit, valueK), lines 180-191
temperatureFromKelvin_wrongOffset(unit, valueK) ==
    CASE unit = "K" -> valueK
      [] unit = "C" -> Sub(valueK, Num(273))
      [] unit = "F" ->
           Add(Div(Mul(Sub(valueK, Num(273)), Num(9)), Num(5)), Num(32))

temperatureFromKelvin(unit, valueK) ==
    CASE unit = "K" -> valueK
      [] unit = "C" -> Sub(valueK, Q(27315, 100))
      [] unit = "F" ->
           Add(Div(Mul(Sub(valueK, Q(27315, 100)), Num(9)), Num(5)), Num(32))

\* linearConversion(factorTable, fromUnit, toUnit, value), lines 272-281
linearConversion(factorTable, fromUnit, toUnit, value) ==
    IF ~In(fromUnit, factorTable) THEN Throw(UnknownUnitMessage)
    ELSE IF ~In(toUnit, factorTable) THEN Throw(UnknownUnitMessage)
    ELSE Returned(Mul(value, Div(Lookup(factorTable, fromUnit),
                                 Lookup(factorTable, toUnit))))

\* typeof value !== "number" || !Number.isFinite(value), line 301
InvalidValue_always(value) == TRUE
InvalidValue(value) == ~IsFinite(value)

\* The loop over Object.entries(unitTypeRegistry), lines 333-337: the
\* conversion in the first table that holds both units.
FirstTable(registry, from, to, value) ==
    CHOOSE result \in {
        IF tables # {}
        THEN linearConversion(
               registry[CHOOSE i \in tables : \A j \in tables : i <= j],
               from, to, value)
        ELSE Throw(UnsupportedMessage)
        : tables \in {{i \in DOMAIN registry :
                         In(from, registry[i]) /\ In(to, registry[i])}} }
      : TRUE

\* convertUnit(originalUnit, newUnit, value), lines 299-341
convertUnit(originalUnit, newUnit, value) ==
    CHOOSE result \in {
        IF InvalidValue(value) THEN Returned(NaN)
        ELSE IF from.state = "threw" THEN from
        ELSE IF to.state = "threw" THEN to
        ELSE IF from.value = to.value THEN Returned(value)
        ELSE IF from.value \in temperatureUnits /\ to.value \in temperatureUnits
             THEN Returned(temperatureFromKelvin(to.value,
                               temperatureToKelvin(from.value, value)))
        ELSE FirstTable(registry, from.value, to.value, value)
        : from \in {normalizeUnit(originalUnit)},
          to \in {normalizeUnit(newUnit)}, registry \in {unitTypeRegistry} }
      : TRUE

\* The units of the tables and the temperature units.
KnownUnits ==
    UNION {DOMAIN unitTypeRegistry[i] : i \in DOMAIN unitTypeRegistry}
    \cup temperatureUnits

\* Temperature units in lower case, the empty string, a string that names
\* no unit and one that names an inherited property.
OtherUnits == {"c", "f", "k", "", "furlong", "toString"}

\* Two units of one quantity type.
SameType(from, to) ==
    \/ \E i \in DOMAIN unitTypeRegistry :
           from \in DOMAIN unitTypeRegistry[i]
        /\ to \in DOMAIN unitTypeRegistry[i]
    \/ from \in DOMAIN toUpperCase /\ to \in DOMAIN toUpperCase

\* Units paired across quantity types.
MixedUnits == {"m", "ft^2", "Pa", "kg/s", "lbf", "C", "K", "f"} \cup OtherUnits

\* The pairs of units drawn.  The ratio of the factors of GPa and psi is
\* beyond the integers of the model checker; that pair is not drawn.
UnitPairs ==
    {p \in (KnownUnits \cup OtherUnits) \X (KnownUnits \cup OtherUnits) :
        /\ \/ SameType(p[1], p[2])
           \/ p[1] \in MixedUnits /\ p[2] \in MixedUnits
        /\ {p[1], p[2]} # {"GPa", "psi"}}

ConvertArgs ==
    {[fn |-> "convert", from |-> p[1], to |-> p[2], value |-> value] :
        p \in UnitPairs, value \in {Num(1), Q(-1, 2), NaN}}

\* convertUnit(from, to, value)
ConvertUnit ==
    /\ args.fn = "convert"
    /\ results' = [results EXCEPT !["convertUnit"] =
                     convertUnit(args.from, args.to, args.value)]
    /\ UNCHANGED <<uiVars, loadVars, fitVars, pageVars, args>>

\* convertUnit(to, from, r) on the value r the conversion returned
ConvertUnitBack ==
    /\ args.fn = "convert"
    /\ results["convertUnit"].state = "returned"
    /\ results' = [results EXCEPT !["convertUnitBack"] =
                     convertUnit(args.to, args.from,
                                 results["convertUnit"].value)]
    /\ UNCHANGED <<uiVars, loadVars, fitVars, pageVars, args>>

\* calcDarcyForchheimer(A, B, mu, rho, L)
CalcDarcyForchheimer ==
    /\ args.fn = "coefficients"
    /\ results' = [results EXCEPT !["calcDarcyForchheimer"] =
          Returned(calcDarcyForchheimer(args.A, args.B, args.mu, args.rho,
                                        args.L))]
    /\ UNCHANGED <<uiVars, loadVars, fitVars, pageVars, args>>

\* lines 256-260 of performCurveFitting on the same values
InlineCoefficients ==
    /\ args.fn = "coefficients"
    /\ results' = [results EXCEPT !["performCurveFitting"] =
          Returned(inlineCoefficients(args.A, args.B, args.L, args.rho,
                                      args.mu))]
    /\ UNCHANGED <<uiVars, loadVars, fitVars, pageVars, args>>

\* a.toFixed(0) as a number: the nearest integer, halves away from zero
toFixed0(a) ==
    IF ~IsFinite(a) THEN a
    ELSE Num(Sign(a) * ((2 * AbsInt(a.n) + a.d) \div (2 * a.d)))

\* The target unit that calculateReynolds names for the dynamic viscosity
\* (page script line 357), written with a middle dot.
ReynoldsViscosityUnit == "Pa·s"

\* calculateReynolds(), page script lines 333-369: what it writes into the
\* value of #reValue for the numbers and units the fields hold.
calculateReynolds(rho_val, V_val, D_val, mu_val, densityUnit, velocityUnit, diameterUnit, dynViscUnit) ==
    IF ~IsFinite(rho_val) \/ ~IsFinite(V_val) \/ ~IsFinite(D_val)
       \/ ~IsFinite(mu_val)
    THEN [kind |-> "blank"]
    ELSE IF mu_val = Num(0) THEN [kind |-> "infinity"]
    ELSE LET rho_SI == convertUnit(densityUnit, "kg/m^3", rho_val)
             V_SI == convertUnit(velocityUnit, "m/s", V_val)
             D_SI == convertUnit(diameterUnit, "m", D_val)
             mu_SI == convertUnit(dynViscUnit, ReynoldsViscosityUnit, mu_val)
         IN  IF \E c \in {rho_SI, V_SI, D_SI, mu_SI} : c.state = "threw"
             THEN [kind |-> "Error"]
             ELSE [kind |-> "number",
                   value |-> toFixed0(Div(Mul(Mul(rho_SI.value, V_SI.value),
                                              D_SI.value),
                                          mu_SI.value))]

\* What the fields of the Reynolds calculator hold: water (1 g/cm^3) and a
\* blank density, a viscosity of zero, units of the registered tables, a velocity
\* unit other than m/s, and the viscosity unit spelled as the script does.
ReynoldsArgs ==
    [fn : {"reynolds"},
     rho : {Num(1), NaN}, V : {Num(2)}, D : {Q(1, 2), Num(50)},
     mu : {Num(0), Num(1), Q(1, 1000)},
     densityUnit : {"kg/m^3", "g/cm^3"},
     velocityUnit : {"m/s", "ft/s"},
     diameterUnit : {"m", "cm"},
     dynViscUnit : DOMAIN dynViscFactors \cup {ReynoldsViscosityUnit}]

\* An input or change event on a field of the Reynolds calculator
CalculateReynolds ==
    /\ args.fn = "reynolds"
    /\ results' = [results EXCEPT !["calculateReynolds"] =
          Returned(calculateReynolds(args.rho, args.V, args.D, args.mu,
                                     args.densityUnit, args.velocityUnit,
                                     args.diameterUnit, args.dynViscUnit))]
    /\ UNCHANGED <<uiVars, loadVars, fitVars, pageVars, args>>

\* The longest string typed into the temperature field.
MaxTyped == 4

\* Strings are sequences of characters: a digit, the decimal point, the
\* minus sign and a letter.
Chars == {"7", ".", "-", "e"}

\* [^\d.\-]: the characters that the first replace removes
NotNumeric(c) == c \notin {"7", ".", "-"}

\* value.replace(/x/g, "") for the characters x that satisfy Matches
RemoveAll(value, Matches(_)) == SelectSeq(value, LAMBDA c : ~Matches(c))

\* value.indexOf(c) and value.lastIndexOf(c), counted from 1; 0 when absent
indexOf(value, c) ==
    IF \E i \in DOMAIN value : value[i] = c
    THEN CHOOSE i \in DOMAIN value :
            value[i] = c /\ \A j \in 1 .. i - 1 : value[j] # c
    ELSE 0

lastIndexOf(value, c) ==
    IF \E i \in DOMAIN value : value[i] = c
    THEN CHOOSE i \in DOMAIN value :
            value[i] = c /\ \A j \in i + 1 .. Len(value) : value[j] # c
    ELSE 0

\* value.split(c)
RECURSIVE split(_, _)
split(value, c) ==
    LET i == indexOf(value, c)
    IN  IF i = 0 THEN <<value>>
        ELSE <<SubSeq(value, 1, i - 1)>>
             \o split(SubSeq(value, i + 1, Len(value)), c)

\* parts.join("")
RECURSIVE join(_)
join(parts) ==
    IF parts = <<>> THEN <<>> ELSE Head(parts) \o join(Tail(parts))

IsMinus(c) == c = "-"

\* line 96: more than one minus sign
MisplacedMinus(value) == indexOf(value, "-") # lastIndexOf(value, "-")

\* The input listener of the temperature field, oil_properties.js lines
\* 86-103: the value it leaves in the field.
temperatureInput(typed) ==
    LET stripped == RemoveAll(typed, NotNumeric)
        parts == split(stripped, ".")
        oneDot == IF Len(parts) > 2
                  THEN parts[1] \o <<".">> \o join(Tail(parts))
                  ELSE stripped
    IN  IF MisplacedMinus(oneDot)
        THEN <<"-">> \o RemoveAll(oneDot, IsMinus)
        ELSE oneDot

TypedArgs ==
    [fn : {"typed"}, typed : UNION {[1 .. n -> Chars] : n \in 0 .. MaxTyped}]

\* An input event on the temperature field that holds args.typed
TemperatureInput ==
    /\ args.fn = "typed"
    /\ results' = [results EXCEPT !["temperatureInput"] =
                     Returned(temperatureInput(args.typed))]
    /\ UNCHANGED <<uiVars, loadVars, fitVars, pageVars, args>>

\* A second input event, on the value that the first one left
TemperatureInputAgain ==
    /\ args.fn = "typed"
    /\ results["temperatureInput"].state = "returned"
    /\ results' = [results EXCEPT !["temperatureInputAgain"] =
          Returned(temperatureInput(results["temperatureInput"].value))]
    /\ UNCHANGED <<uiVars, loadVars, fitVars, pageVars, args>>

CalcArgs ==
    CoefficientArgs \cup CurveArgs \cup ConvertArgs \cup ReynoldsArgs
    \cup TypedArgs

CalcInit ==
    /\ env = "browser"
    /\ LoadInit
    /\ UiIdle
    /\ FitIdle
    /\ PageIdle
    /\ args \in CalcArgs
    /\ results = [f \in Functions |-> NotCalled]

CalcNext ==
    \/ CalcDarcyForchheimer
    \/ InlineCoefficients
    \/ GenerateCurve
    \/ GenerateCurveAgain
    \/ ConvertUnit
    \/ ConvertUnitBack
    \/ CalculateReynolds
    \/ TemperatureInput
    \/ TemperatureInputAgain

SpecCalc == CalcInit /\ [][CalcNext]_vars

(***************************************************************************)
(* The fluid property functions, called at any moment before or after the  *)
(* fluid table has been loaded.                                            *)
(***************************************************************************)
\* The fluids of the resource and one it does not hold.
FluidNames == DOMAIN Fluids \cup {"SAE 30"}

\* Temperatures in kelvin: powers of ten, absolute zero, and what a blank or
\* overflowing input gives.
Temperatures == {Num(100), Num(1000), Num(0), NaN, Infinity(1)}

\* 15 C and 40 C, for the density alone (their logarithms have no exact
\* value).
DensityTemperatures == {Q(28815, 100), Q(31315, 100)}

\* The relative deviation of the recomputed reference viscosities that
\* rounding causes: none, or one beyond the 5% threshold.
Roundings == {Num(0), Q(1, 10)}

OilArgs ==
    [fn : {"viscosity"}, name : FluidNames, tK : Temperatures,
     rounding : Roundings]
    \cup [fn : {"density"}, name : FluidNames, tK : DensityTemperatures]

\* What a fluid property function returned, and the table it read.
ReturnedFrom(table, value) ==
    [state |-> "returned", value |-> value, fluidData |-> table]

\* OilProps.getDensityAtTemp(name, tK)
GetDensityAtTemp ==
    /\ args.fn \in {"density", "viscosity"}
    /\ results' = [results EXCEPT !["getDensityAtTemp"] =
          ReturnedFrom(fluidData,
                       getDensityAtTemp(fluidData, args.name, args.tK))]
    /\ UNCHANGED <<uiVars, loadVars, fitVars, pageVars, args>>

\* A call that ended in an exception.
ThrewFrom(table) == [state |-> "threw", fluidData |-> table]

\* OilProps.getKinViscAtTemp(name, tK)
GetKinViscAtTemp ==
    /\ args.fn = "viscosity"
    /\ LET console == validationInKinVisc(fluidData, args.name, args.tK,
                                          args.rounding)
       IN  results' = [results EXCEPT !["getKinViscAtTemp"] =
              IF console.threw THEN ThrewFrom(fluidData)
              ELSE ReturnedFrom(fluidData,
                       getKinViscAtTemp(fluidData, args.name, args.tK))
                   @@ [warned |-> console.warned]]
    /\ UNCHANGED <<uiVars, loadVars, fitVars, pageVars, args>>

\* OilProps.getDynViscAtTemp(name, tK)
GetDynViscAtTemp ==
    /\ args.fn = "viscosity"
    /\ results' = [results EXCEPT !["getDynViscAtTemp"] =
          ReturnedFrom(fluidData,
                       getDynViscAtTemp(fluidData, args.name, args.tK))]
    /\ UNCHANGED <<uiVars, loadVars, fitVars, pageVars, args>>

\* The module in Node, where a load completes within the call.
OilInit ==
    /\ env = "node"
    /\ LoadInit
    /\ UiIdle
    /\ FitIdle
    /\ PageIdle
    /\ args \in OilArgs
    /\ results = [f \in Functions |-> NotCalled]

OilNext ==
    \/ LoadFluidData
    \/ GetDensityAtTemp
    \/ GetKinViscAtTemp
    \/ GetDynViscAtTemp

SpecOil == OilInit /\ [][OilNext]_vars

(***************************************************************************)
(* The slide carousel of the home page: home.js lines 101-205.  The        *)
(* heights and opacities that adjustButtonHeight and the expandDuration    *)
(* timer set, and the playback of the videos, are styles that no handler   *)
(* reads; they are not part of the state.                                  *)
(***************************************************************************)
\* The number of slides, each with its side button.
MaxSlides == 5

SlideIds == 0 .. MaxSlides - 1

\* classList.add, classList.remove and classList.toggle(name, force)
AddClass(classList, name) == classList \cup {name}

RemoveClass(classList, name) == classList \ {name}

ToggleClass(classList, name, force) ==
    IF force THEN AddClass(classList, name) ELSE RemoveClass(classList, name)

\* line 143: if (animating || newIndex === index) return;
Rejected_onlySame(newIndex) == newIndex = index
Rejected(newIndex) == animating \/ newIndex = index

\* showSlide(newIndex), lines 142-189, up to its return; the two nested
\* timers are SlideDelayTimer and SlideDurationTimer.
showSlide(newIndex) ==
    IF Rejected(newIndex)
    THEN UNCHANGED carouselVars
    ELSE /\ animating' = TRUE
         /\ slides' = [slides EXCEPT ![index] =
                          RemoveClass(AddClass(@, "exit-left"), "active")]
         /\ timeouts' = timeouts \cup
               {[delay |-> "slideDelay", currentSlide |-> index,
                 nextSlide |-> newIndex]}
         /\ sidebuttons' = [i \in SlideIds |->
                              ToggleClass(sidebuttons[i], "active",
                                          i = newIndex)]
         /\ UNCHANGED <<index, loaded>>

OutsideCarousel ==
    UNCHANGED <<loadVars, fitVars, pageVars, calcVars, videoVars, pipeVars>>

\* line 191: a click on the side button whose data-index is i
ClickSideButton(i) == showSlide(i) /\ OutsideCarousel

\* line 192: a click on the left arrow
ClickLeftArrow ==
    showSlide((index - 1 + MaxSlides) % MaxSlides) /\ OutsideCarousel

\* line 193: a click on the right arrow
ClickRightArrow == showSlide((index + 1) % MaxSlides) /\ OutsideCarousel

\* lines 158-175: the callback of the slideDelay timer
SlideDelayTimer ==
    \E t \in timeouts :
        /\ t.delay = "slideDelay"
        /\ slides' = [i \in SlideIds |->
              LET left == IF i = t.currentSlide
                          THEN RemoveClass(slides[i], "exit-left")
                          ELSE slides[i]
              IN  IF i = t.nextSlide
                  THEN RemoveClass(AddClass(AddClass(left, "enter-right"),
                                            "active"),
                                   "enter-right")
                  ELSE left]
        /\ timeouts' = (timeouts \ {t})
              \cup {[delay |-> "slideDuration", newIndex |-> t.nextSlide]}
        /\ UNCHANGED <<index, animating, sidebuttons, loaded>>
        /\ OutsideCarousel

\* lines 171-174: the callback of the slideDuration timer
SlideDurationTimer ==
    \E t \in timeouts :
        /\ t.delay = "slideDuration"
        /\ index' = t.newIndex
        /\ animating' = FALSE
        /\ timeouts' = timeouts \ {t}
        /\ UNCHANGED <<slides, sidebuttons, loaded>>
        /\ OutsideCarousel

\* lines 195-203: the listener of the window load event, which fires once
WindowLoad ==
    /\ ~loaded
    /\ loaded' = TRUE
    /\ sidebuttons' = [i \in SlideIds |->
          IF i = 0 THEN AddClass(RemoveClass(sidebuttons[i], "active"),
                                 "active")
          ELSE RemoveClass(sidebuttons[i], "active")]
    /\ slides' = [i \in SlideIds |->
          IF i = 0 THEN AddClass(RemoveClass(slides[i], "active"), "active")
          ELSE RemoveClass(slides[i], "active")]
    /\ UNCHANGED <<index, animating, timeouts>>
    /\ OutsideCarousel

\* The page as its markup gives it: the first slide and the first side
\* button carry the active class.
CarouselInit ==
    /\ env = "browser"
    /\ LoadInit
    /\ FitIdle
    /\ PageIdle
    /\ CalcIdle
    /\ VideoIdle
    /\ PipeIdle
    /\ index = 0
    /\ animating = FALSE
    /\ slides = [i \in SlideIds |-> IF i = 0 THEN {"active"} ELSE {}]
    /\ sidebuttons = [i \in SlideIds |-> IF i = 0 THEN {"active"} ELSE {}]
    /\ timeouts = {}
    /\ loaded = FALSE

CarouselNext ==
    \/ \E i \in SlideIds : ClickSideButton(i)
    \/ ClickLeftArrow
    \/ ClickRightArrow
    \/ SlideDelayTimer
    \/ SlideDurationTimer
    \/ WindowLoad

SpecCarousel == CarouselInit /\ [][CarouselNext]_vars

\* The same with timers that fire: a pending setTimeout callback runs.
SpecCarouselFair ==
    /\ SpecCarousel
    /\ WF_vars(SlideDelayTimer)
    /\ WF_vars(SlideDurationTimer)

(***************************************************************************)
(* The video player of the home page: home.js lines 1-47.                  *)
(***************************************************************************)
\* The most video buttons on the page, and the most setInterval calls.
MaxButtons == 4

MaxIntervals == 8

\* The indexes of the video buttons
ButtonIds == DOMAIN buttons

\* clearInterval(id)
clearInterval_nothing(timers, id) == timers
clearInterval(timers, id) == {t \in timers : t.id # id}

\* loadVideo(index), lines 7-19, with the startProgress() it ends in
\* (lines 22-32): the new timer updates the progress bar of
\* buttons[currentIndex], and its id is stored in progressInterval.
loadVideo(i) ==
    /\ progressInterval < MaxIntervals
    /\ buttons' = [b \in ButtonIds |-> [active |-> b = i, width |-> "0%"]]
    /\ currentIndex' = i
    /\ mainVideo' = i
    /\ progressInterval' = progressInterval + 1
    /\ intervals' = clearInterval(intervals, progressInterval)
          \cup {[id |-> progressInterval + 1, progressBar |-> i]}
    /\ UNCHANGED <<loadVars, fitVars, pageVars, calcVars, carouselVars,
                   pipeVars>>

\* line 35-39: the ended event of #mainVideo
Ended ==
    LET nextIndex == currentIndex + 1
    IN  loadVideo(IF nextIndex >= Cardinality(ButtonIds) THEN 0
                  ELSE nextIndex)

\* lines 42-44: a click on video button i
ClickVideoButton(i) == loadVideo(i)

\* lines 26-31: a tick of a live progress timer; the bar moves once the
\* video knows its duration.
ProgressTick ==
    \E t \in intervals, hasDuration \in BOOLEAN :
        /\ buttons' = IF hasDuration
                      THEN [buttons EXCEPT ![t.progressBar].width = "progress%"]
                      ELSE buttons
        /\ UNCHANGED <<currentIndex, progressInterval, intervals, mainVideo>>
        /\ UNCHANGED <<loadVars, fitVars, pageVars, calcVars, carouselVars,
                       pipeVars>>

\* The page after the script has run: line 47 has started the progress
\* timer of the first button.
VideoInit ==
    /\ env = "browser"
    /\ LoadInit
    /\ FitIdle
    /\ PageIdle
    /\ CalcIdle
    /\ CarouselIdle
    /\ PipeIdle
    /\ \E n \in 1 .. MaxButtons :
          buttons = [b \in 0 .. n - 1 |-> [active |-> b = 0, width |-> "0%"]]
    /\ currentIndex = 0
    /\ mainVideo = 0
    /\ progressInterval = 1
    /\ intervals = {[id |-> 1, progressBar |-> 0]}

VideoNext ==
    \/ Ended
    \/ \E i \in ButtonIds : ClickVideoButton(i)
    \/ ProgressTick

SpecVideo == VideoInit /\ [][VideoNext]_vars

(***************************************************************************)
(* The pipe velocity calculator of the tools page: page script             *)
(* part_000 lines 1-180.  The fields hold decimal numbers of 4 places.     *)
(***************************************************************************)
\* The most input and change events on the calculator.
MaxEvents == 3

\* The first k decimal digits of r/d for 0 <= r < d, as an integer, and the
\* remainder that is left over the divisor d; a divisor above 10^8 is
\* shortened with r, which leaves the 8 leading digits of r/d.
RECURSIVE LongDivision(_, _, _)
LongDivision(r0, d0, k0) ==
    CHOOSE result \in {
        IF d > 100000000 THEN LongDivision(r \div 10, d \div 10, k)
        ELSE IF k = 0 THEN [q |-> 0, r |-> r, d |-> d]
        ELSE LET rest == LongDivision(((r * 10) % d), d, k - 1)
             IN  [rest EXCEPT !.q = ((r * 10) \div d) * (10 ^ (k - 1)) + @]
        : r \in {r0}, d \in {d0}, k \in {k0} } : TRUE

\* sign * (whole + 0.digits), the fourth digit rounded by what is left
Rounded(sign0, whole0, digits0) ==
    CHOOSE result \in {
        Q(sign * (whole * 10000 + digits.q
                  + (IF 2 * digits.r >= digits.d THEN 1 ELSE 0)), 10000)
        : sign \in {sign0}, whole \in {whole0}, digits \in {digits0} }
      : TRUE

\* a.toFixed(4) read back as a number: a rounded to 4 decimal places,
\* halves away from zero; NaN.toFixed(4) is "NaN".
toFixed4(a0) ==
    CHOOSE result \in {
        IF ~IsFinite(a) THEN NaN
        ELSE Rounded(Sign(a), AbsInt(a.n) \div a.d,
                     LongDivision(AbsInt(a.n) % a.d, a.d, 4))
        : a \in {a0} } : TRUE

\* The largest integer whose square is at most n, between lo and hi.
RECURSIVE IntSqrt(_, _, _)
IntSqrt(n0, lo0, hi0) ==
    CHOOSE result \in {
        IF lo >= hi THEN lo
        ELSE LET mid == (lo + hi + 1) \div 2
             IN  IF mid * mid <= n THEN IntSqrt(n, mid, hi)
                 ELSE IntSqrt(n, lo, mid - 1)
        : n \in {n0}, lo \in {lo0}, hi \in {hi0} } : TRUE

\* Every operator of the calculator binds its arguments before it uses them,
\* as a JavaScript call evaluates its arguments once.
\* The arithmetic of updateVelocity and updateDiameter is floating-point
\* arithmetic on positive numbers: a number is m * 10^e with a mantissa m of
\* 4 digits, and every operation rounds down to such a number.
\* n/d * 10^e with the mantissa brought to 4 digits:
RECURSIVE Normalized(_, _, _)
Normalized(n0, d0, e0) ==
    CHOOSE result \in {
        IF n = 0 THEN [m |-> 0, e |-> 0]
        ELSE IF n \div d >= 10000 THEN Normalized(n \div 10, d, e + 1)
        ELSE IF n \div d >= 1000 THEN [m |-> n \div d, e |-> e]
        ELSE IF n < 100000000 THEN Normalized(n * 10, d, e - 1)
        ELSE Normalized(n, d \div 10, e - 1)
        : n \in {n0}, d \in {d0}, e \in {e0} } : TRUE

\* The floating-point number of a rational that is not negative, and back.
Float(a) == Normalized(a.n, a.d, 0)

Rational(f0) ==
    CHOOSE result \in {
        IF f.e >= 0 THEN Num(f.m * (10 ^ f.e)) ELSE Q(f.m, 10 ^ (-f.e))
        : f \in {f0} } : TRUE

FloatMul(f0, g0) ==
    CHOOSE result \in {
        Normalized(f.m * g.m, 1, f.e + g.e)
        : f \in {f0}, g \in {g0} } : TRUE

FloatDiv(f0, g0) ==
    CHOOSE result \in {
        Normalized(f.m * 100000, g.m, f.e - g.e - 5)
        : f \in {f0}, g \in {g0} } : TRUE

\* Math.sqrt(f)
FloatSqrt(f0) ==
    CHOOSE result \in {
        LET even == IF f.e % 2 = 0 THEN f ELSE [m |-> f.m * 10, e |-> f.e - 1]
        IN  Normalized(IntSqrt(even.m * 10000, 0, 46340), 1, (even.e - 4) \div 2)
        : f \in {f0} } : TRUE

\* Math.PI
MathPI == Float(Q(355, 113))

\* The units offered by the three selects: for the velocity, m/s and one
\* more (no factor table of the converter holds a velocity unit).
DiameterUnits == {"m", "cm"}

FlowUnits == {"m^3/s", "L/s"}

VelocityUnits == {"m/s", "ft/s"}

\* lines 34 and 46: const siUnits
siUnits == [length |-> "m", flow |-> "m^3/s", velocity |-> "m/s"]

\* toSI(value, fromUnit, type), lines 33-40: the value itself when
\* convertUnit throws
toSI(value0, fromUnit0, type0) ==
    CHOOSE result \in {
        IF converted.state = "threw" THEN value ELSE converted.value
        : value \in {value0},
          converted \in {convertUnit(fromUnit0, siUnits[type0], value0)} }
      : TRUE

\* fromSI(value, toUnit, type), lines 45-52
fromSI(value0, toUnit0, type0) ==
    CHOOSE result \in {
        IF converted.state = "threw" THEN value ELSE converted.value
        : value \in {value0},
          converted \in {convertUnit(siUnits[type0], toUnit0, value0)} }
      : TRUE

\* The state a handler of the calculator works on.
PipeState ==
    [elements |-> elements, isUpdating |-> isUpdating,
     skipped |-> pipeLog.skipped]

\* Q_m3s / (Math.PI * Math.pow(D_m / 2, 2)), lines 68-69
VelocityOf(Q_m3s0, D_m0) ==
    CHOOSE result \in {
        IF Sign(Q_m3s) = 0 THEN Num(0)
        ELSE Rational(FloatDiv(Float(Q_m3s),
                               FloatMul(MathPI, FloatMul(radius, radius))))
        : Q_m3s \in {Q_m3s0}, radius \in {Float(Div(D_m0, Num(2)))} }
      : TRUE

\* 2 * Math.sqrt((Q_m3s / V_m_s) / Math.PI), lines 90-91
DiameterOf(Q_m3s0, V_m_s0) ==
    CHOOSE result \in {
        LET area_m2 == FloatDiv(Float(Q_m3s), Float(V_m_s))
        IN  IF Sign(Q_m3s) = 0 THEN Num(0)
            ELSE Mul(Num(2), Rational(FloatSqrt(FloatDiv(area_m2, MathPI))))
        : Q_m3s \in {Q_m3s0}, V_m_s \in {V_m_s0} } : TRUE

\* updateVelocity(), lines 58-74
updateVelocity(st0) ==
    CHOOSE result \in {
        IF st.isUpdating THEN [st EXCEPT !.skipped = @ + 1]
        ELSE LET el == st.elements
                 D_val == el.diameter
                 Q_val == el.flow
                 D_m == toSI(D_val, el.diameterUnit.value, "length")
                 Q_m3s == toSI(Q_val, el.flowUnit.value, "flow")
                 V_m_s == VelocityOf(Q_m3s, D_m)
             IN  IF IsFinite(D_val) /\ IsFinite(Q_val) /\ Less(Num(0), D_val)
                 THEN [st EXCEPT !.elements.velocity =
                         toFixed4(fromSI(V_m_s, el.velocityUnit.value,
                                         "velocity")),
                       !.isUpdating = FALSE]
                 ELSE [st EXCEPT !.isUpdating = FALSE]
        : st \in {st0} } : TRUE

\* updateDiameter(), lines 80-96
updateDiameter(st0) ==
    CHOOSE result \in {
        IF st.isUpdating THEN [st EXCEPT !.skipped = @ + 1]
        ELSE LET el == st.elements
                 V_val == el.velocity
                 Q_val == el.flow
                 V_m_s == toSI(V_val, el.velocityUnit.value, "velocity")
                 Q_m3s == toSI(Q_val, el.flowUnit.value, "flow")
                 D_m == DiameterOf(Q_m3s, V_m_s)
             IN  IF IsFinite(V_val) /\ IsFinite(Q_val) /\ Less(Num(0), V_val)
                 THEN [st EXCEPT !.elements.diameter =
                         toFixed4(fromSI(D_m, el.diameterUnit.value, "length")),
                       !.isUpdating = FALSE]
                 ELSE [st EXCEPT !.isUpdating = FALSE]
        : st \in {st0} } : TRUE

\* elements.x.dataset.oldUnit = elements.x.value, the last statement of the
\* three change handlers (lines 133, 149, 165)
RememberUnit_never(select) == select
RememberUnit(select) == [select EXCEPT !.oldUnit = select.value]

\* select.dataset.oldUnit || select.value, where the select shows unit
StoredUnit(select, unit) ==
    IF select.oldUnit = "" THEN unit ELSE select.oldUnit

\* handleDiameterUnitChange(), lines 123-134, once the select shows unit
handleDiameterUnitChange(st0, unit0) ==
    CHOOSE result \in {
        LET oldUnit == StoredUnit(st.elements.diameterUnit, unit)
            value == st.elements.diameter
            value_m == toSI(value, oldUnit, "length")
            shown == [st EXCEPT !.elements.diameterUnit.value = unit]
            done ==
                IF IsFinite(value)
                THEN updateVelocity([shown EXCEPT !.elements.diameter =
                         toFixed4(fromSI(value_m, unit, "length"))])
                ELSE shown
        IN  [done EXCEPT !.elements.diameterUnit = RememberUnit(@)]
        : st \in {st0}, unit \in {unit0} } : TRUE

\* handleFlowUnitChange(), lines 139-150
handleFlowUnitChange(st0, unit0) ==
    CHOOSE result \in {
        LET oldUnit == StoredUnit(st.elements.flowUnit, unit)
            value == st.elements.flow
            value_m3s == toSI(value, oldUnit, "flow")
            shown == [st EXCEPT !.elements.flowUnit.value = unit]
            done ==
                IF IsFinite(value)
                THEN updateVelocity([shown EXCEPT !.elements.flow =
                         toFixed4(fromSI(value_m3s, unit, "flow"))])
                ELSE shown
        IN  [done EXCEPT !.elements.flowUnit = RememberUnit(@)]
        : st \in {st0}, unit \in {unit0} } : TRUE

\* handleVelocityUnitChange(), lines 155-166
handleVelocityUnitChange(st0, unit0) ==
    CHOOSE result \in {
        LET oldUnit == StoredUnit(st.elements.velocityUnit, unit)
            value == st.elements.velocity
            value_m_s == toSI(value, oldUnit, "velocity")
            shown == [st EXCEPT !.elements.velocityUnit.value = unit]
            done ==
                IF IsFinite(value)
                THEN updateDiameter([shown EXCEPT !.elements.velocity =
                         toFixed4(fromSI(value_m_s, unit, "velocity"))])
                ELSE shown
        IN  [done EXCEPT !.elements.velocityUnit = RememberUnit(@)]
        : st \in {st0}, unit \in {unit0} } : TRUE

\* The calculator after the handler of one more event has returned st.
AfterEvent(name, st) ==
    /\ pipeLog.events < MaxEvents
    /\ elements' = st.elements
    /\ isUpdating' = st.isUpdating
    /\ pipeLog' = [events |-> pipeLog.events + 1, skipped |-> st.skipped,
                   last |-> name]
    /\ UNCHANGED <<loadVars, fitVars, pageVars, calcVars, carouselVars,
                   videoVars>>

\* What the user types into a field: nothing, or a positive number.
TypedNumbers == {NaN, Num(1), Num(2)}

\* lines 169-171: the input listeners of the three fields
InputDiameter(typed) ==
    /\ typed \in TypedNumbers
    /\ AfterEvent("diameter",
                  updateVelocity([PipeState EXCEPT !.elements.diameter = typed]))

InputFlow(typed) ==
    /\ typed \in TypedNumbers
    /\ AfterEvent("flow",
                  updateVelocity([PipeState EXCEPT !.elements.flow = typed]))

InputVelocity(typed) ==
    /\ typed \in TypedNumbers
    /\ AfterEvent("velocity",
                  updateDiameter([PipeState EXCEPT !.elements.velocity = typed]))

\* lines 174-176: the change listeners of the three selects; a change event
\* fires when another option has been selected.
ChangeDiameterUnit(unit) ==
    /\ unit # elements.diameterUnit.value
    /\ AfterEvent("diameterUnit", handleDiameterUnitChange(PipeState, unit))

ChangeFlowUnit(unit) ==
    /\ unit # elements.flowUnit.value
    /\ AfterEvent("flowUnit", handleFlowUnitChange(PipeState, unit))

ChangeVelocityUnit(unit) ==
    /\ unit # elements.velocityUnit.value
    /\ AfterEvent("velocityUnit", handleVelocityUnitChange(PipeState, unit))

\* lines 24-26: a select as the markup gives it, its oldUnit stored
InitialSelect(unit) == [value |-> unit, oldUnit |-> unit]

\* initializePipeVelocityCalculator(), lines 7-180: the fields as the markup
\* fills them, the oldUnit of every select stored (lines 24-26), and the
\* first updateVelocity() (line 179).
PipeInit ==
    /\ env = "browser"
    /\ LoadInit
    /\ FitIdle
    /\ PageIdle
    /\ CalcIdle
    /\ CarouselIdle
    /\ VideoIdle
    /\ \E D_val \in {NaN, Num(1)}, Q_val \in {NaN, Num(1)} :
          elements =
            updateVelocity(
              [elements |->
                 [diameter |-> D_val, flow |-> Q_val, velocity |-> NaN,
                  diameterUnit |-> InitialSelect("m"),
                  flowUnit |-> InitialSelect("m^3/s"),
                  velocityUnit |-> InitialSelect("m/s")],
               isUpdating |-> FALSE, skipped |-> 0]).elements
    /\ isUpdating = FALSE
    /\ pipeLog = [events |-> 0, skipped |-> 0, last |-> "initialize"]

PipeNext ==
    \/ \E typed \in TypedNumbers : InputDiameter(typed)
    \/ \E typed \in TypedNumbers : InputFlow(typed)
    \/ \E typed \in TypedNumbers : InputVelocity(typed)
    \/ \E unit \in DiameterUnits : ChangeDiameterUnit(unit)
    \/ \E unit \in FlowUnits : ChangeFlowUnit(unit)
    \/ \E unit \in VelocityUnits : ChangeVelocityUnit(unit)

SpecPipe == PipeInit /\ [][PipeNext]_vars

(***************************************************************************)
(* Claims about the loader.                                                *)
(***************************************************************************)
CallIds == 1..Len(calls)
LoadIds == 1..Len(loads)

\* C1: at most one load is in flight at any time, and a loadFluidData call
\* made while a load is pending starts no load, returns the promise of that
\* pending load and settles only as that load settles.
C1_SingleFlight ==
    /\ Cardinality(InFlight) <= 1
    /\ \A c \in CallIds :
          calls[c].inFlightAtCall # {} =>
             /\ calls[c].started = Null
             /\ calls[c].on \in calls[c].inFlightAtCall
             /\ calls[c].outcome \in {"pending", loads[calls[c].on].phase}

\* A call joined a pending load started by an earlier call, and has settled.
C1_Witness ==
    \E c \in CallIds :
        /\ calls[c].inFlightAtCall # {}
        /\ calls[c].outcome \in Settled

\* C2: whenever no load is pending, loadPromise is null (after success and
\* after failure, in the fetch branch and in the readFileSync branch), so a
\* call that finds no table and no pending load starts a fresh load.
C2_MarkerClearedAfterCompletion ==
    /\ loadPromise # Null => loads[loadPromise].phase \in Pending
    /\ \A c \in CallIds :
          (calls[c].inFlightAtCall = {} /\ KeyCount(calls[c].dataAtCall) = 0)
             => calls[c].started # Null

\* C3: a load that failed (fetch rejected, response not ok, JSON not
\* parsed, no loading method) is a rejected promise, no caller that awaited
\* it observes anything but the rejection, and fluidData is the empty table
\* it was before the attempt.
C3_FailurePropagates ==
    \A l \in LoadIds :
        loads[l].failed =>
           /\ loads[l].phase = "rejected"
           /\ loads[l].before = EmptyTable
           /\ loads[l].after = loads[l].before
           /\ \A c \in CallIds :
                 calls[c].on = l => calls[c].outcome \in {"pending", "rejected"}

\* Two callers awaited the same failed load and both observed the rejection.
C3_Witness ==
    \E l \in LoadIds :
        /\ loads[l].failed
        /\ Cardinality({c \in CallIds : calls[c].on = l}) >= 2
        /\ \A c \in CallIds : calls[c].on = l => calls[c].outcome = "rejected"

\* C4: once some load has succeeded, every later call starts no load and
\* fluidData stays what that call found.
C4_LoadedOnce ==
    \A c \in CallIds :
        calls[c].succeededAtCall # {} =>
           /\ calls[c].started = Null
           /\ fluidData = calls[c].dataAtCall

(***************************************************************************)
(* Claims about the curve fitting functions.                               *)
(***************************************************************************)
AllSameX(points) ==
    /\ Len(points) >= 1
    /\ \A i \in DOMAIN points : points[i].x = points[1].x

AllSameY(points) ==
    /\ Len(points) >= 1
    /\ \A i \in DOMAIN points : points[i].y = points[1].y

\* C5: for 3 or more samples lying exactly on y = A0*x + B0*x^2 on which
\* leastSquaresFit does not fail, it returns A = A0 and B = B0, and
\* calculateR2 with the returned coefficients returns 1.
C5_LeastSquaresRecoversQuadratic ==
    \A A0 \in Coefficients, B0 \in Coefficients :
        (/\ Len(dataPoints) >= 3
         /\ OnCurve(dataPoints, A0, B0)
         /\ lsq.state = "returned")
        => /\ lsq.A = A0
           /\ lsq.B = B0
           /\ (r2.state = "returned" /\ r2.A = lsq.A /\ r2.B = lsq.B)
                 => r2.value = Num(1)

\* C6: for 3 or more samples lying exactly on y = A0*x + B0*x^2 whose
\* determinant sumX2*sumX4 - sumX3^2 is not zero, fitCurve returns A = A0
\* and B = B0.
C6_FitCurveRecoversQuadratic ==
    \A A0 \in Coefficients, B0 \in Coefficients :
        (/\ Len(dataPoints) >= 3
         /\ OnCurve(dataPoints, A0, B0)
         /\ CurveDenominator(Xs(dataPoints)) # Num(0)
         /\ curve.state = "returned")
        => /\ curve.A = A0
           /\ curve.B = B0

\* fitCurve has run on noise-free samples of a quadratic with both
\* coefficients non-zero and a non-zero determinant.
C6_Witness ==
    \E A0 \in Coefficients \ {Num(0)}, B0 \in Coefficients \ {Num(0)} :
        /\ Len(dataPoints) >= 3
        /\ OnCurve(dataPoints, A0, B0)
        /\ CurveDenominator(Xs(dataPoints)) # Num(0)
        /\ curve.state = "returned"
        /\ curve.A = A0

ValidSamples(rows) == Len(getTableData(rows))

\* C8: no fit is computed from fewer than 3 valid samples: leastSquaresFit
\* throws the too-few-points error for 0, 1 or 2 points, performCurveFitting
\* returns null, and calculateAll and calculateFromFlow return before they
\* call fitCurve, leaving the results elements and the charts unchanged.
C8_NoFitFromFewerThanThree ==
    [][/\ (lastOp'.name = "leastSquaresFit" /\ ValidSamples(dataTable) < 3)
            => lastOp'.ret = Throw(TooFewMessage)
       /\ (lastOp'.name = "performCurveFitting" /\ ValidSamples(dataTable) < 3)
            => /\ lastOp'.ret = [kind |-> "null"]
               /\ ~lastOp'.fitted
               /\ UNCHANGED <<liveCharts, registered>>
       /\ (lastOp'.name = "calculateAll" /\ ValidSamples(dataTable) < 3)
            => /\ ~lastOp'.fitted
               /\ UNCHANGED <<innerHTML, liveCharts, registered>>
       /\ (lastOp'.name = "calculateFromFlow"
              /\ ValidSamples(flowDataTable) < 3)
            => /\ ~lastOp'.fitted
               /\ UNCHANGED <<innerHTML, liveCharts, registered>>]_vars

\* calculateAll has returned at its alert on a table of 3 rows of which 2
\* are valid, after performCurveFitting reported its error on the same table.
C8_Witness ==
    /\ Len(dataTable) = 3
    /\ ValidSamples(dataTable) = 2
    /\ lastOp.name = "calculateAll"
    /\ lastOp.ret = [kind |-> "alert"]
    /\ innerHTML["fitResults"].kind = "error"
    /\ innerHTML["results"] = Untouched

\* C9: for 3 or more samples on which leastSquaresFit succeeds and whose y
\* values are not all equal, calculateR2 with the returned A and B lies in
\* [0, 1].
C9_R2InUnitInterval ==
    (/\ Len(dataPoints) >= 3
     /\ ~AllSameY(dataPoints)
     /\ lsq.state = "returned"
     /\ r2.state = "returned" /\ r2.A = lsq.A /\ r2.B = lsq.B)
    => /\ ~Less(r2.value, Num(0))
       /\ ~Less(Num(1), r2.value)
       /\ IsFinite(r2.value)

\* C10: when all samples have the same y value, calculateR2 either fails
\* explicitly or returns 1; it never returns NaN or an infinity.
C10_R2DefinedWhenSameY ==
    (AllSameY(dataPoints) /\ r2.state # "idle")
    => \/ r2.state = "threw"
       \/ r2.state = "returned" /\ r2.value = Num(1)

(***************************************************************************)
(* Claims about the porous-media coefficients.                             *)
(***************************************************************************)
IsZero(a) == a = Num(0)

\* The viscosity and density a handler of the page divides by.
Viscosity(name) ==
    IF name = "calculateAll" THEN form.oilViscosity
    ELSE OrElse(form.viscosityInput, form.oilViscosity)

Density(name) ==
    IF name = "calculateAll" THEN form.oilDensity
    ELSE OrElse(form.densityInput, form.oilDensity)

\* C11: when viscosity*L or density*L is zero, deriving the coefficients
\* fails explicitly: neither performCurveFitting nor a handler that calls
\* calcDarcyForchheimer returns or displays a d or f divided by zero.
C11_DivisionByZeroExplicit ==
    (/\ lastOp.name \in {"performCurveFitting", "calculateAll",
                          "calculateFromFlow"}
     /\ \/ IsZero(Mul(Viscosity(lastOp.name), form.L))
        \/ IsZero(Mul(Density(lastOp.name), form.L)))
    => ~lastOp.fitted

\* C12: for non-zero mu*L and rho*L, calcDarcyForchheimer and the inline
\* computation of performCurveFitting return the same pair d = A/(mu*L),
\* f = 2*B/(rho*L); for A = 2.5, B = 0.8, mu = 0.001, rho = 998, L = 0.1
\* that is d = 25000 and f = 1.6/99.8.
C12_SameCoefficients ==
    (/\ args.fn = "coefficients"
     /\ ~IsZero(Mul(args.mu, args.L))
     /\ ~IsZero(Mul(args.rho, args.L))
     /\ results["calcDarcyForchheimer"].state = "returned"
     /\ results["performCurveFitting"].state = "returned")
    => /\ results["calcDarcyForchheimer"].value
            = results["performCurveFitting"].value
       /\ results["calcDarcyForchheimer"].value
            = [d |-> Div(args.A, Mul(args.mu, args.L)),
               f |-> Div(Mul(Num(2), args.B), Mul(args.rho, args.L))]
       /\ (/\ args.A = Q(5, 2) /\ args.B = Q(4, 5) /\ args.mu = Q(1, 1000)
            /\ args.rho = Num(998) /\ args.L = Q(1, 10))
           => results["calcDarcyForchheimer"].value
                = [d |-> Num(25000), f |-> Q(16, 998)]

\* Both computations have run on the values of the README example.
C12_Witness ==
    /\ args = [fn |-> "coefficients", A |-> Q(5, 2), B |-> Q(4, 5),
                mu |-> Q(1, 1000), rho |-> Num(998), L |-> Q(1, 10)]
    /\ results["calcDarcyForchheimer"].state = "returned"
    /\ results["performCurveFitting"].state = "returned"

\* C13: for numPoints >= 1 and xMin <= xMax generateCurve returns
\* numPoints + 1 points, in order, with x_i = xMin + i*(xMax - xMin)/numPoints
\* (the first x is xMin, the last xMax) and y_i = A*x_i + B*x_i^2; a second
\* call with the same arguments returns an equal sequence, and the calls
\* change nothing else.
C13_GenerateCurve ==
    (/\ args.fn = "curve"
     /\ args.numPoints >= 1
     /\ ~Less(args.xMax, args.xMin)
     /\ results["generateCurve"].state = "returned")
    => LET points == results["generateCurve"].value
           n == args.numPoints
       IN  /\ Len(points) = n + 1
           /\ \A i \in 0..n :
                /\ points[i + 1].x =
                     Add(args.xMin,
                         Div(Mul(Num(i), Sub(args.xMax, args.xMin)), Num(n)))
                /\ points[i + 1].y =
                     Predict(args.A, args.B, points[i + 1].x)
           /\ points[1].x = args.xMin
           /\ points[n + 1].x = args.xMax
           /\ results["generateCurveAgain"].state = "returned"
                => results["generateCurveAgain"].value = points
           /\ LoadInit /\ FitIdle /\ PageIdle

\* generateCurve has been called twice on a non-empty range with three
\* intervals.
C13_Witness ==
    /\ args.fn = "curve"
    /\ args.numPoints = 3
    /\ Less(args.xMin, args.xMax)
    /\ results["generateCurve"].state = "returned"
    /\ results["generateCurveAgain"].state = "returned"

(***************************************************************************)
(* Claims about the unit converter.                                        *)
(***************************************************************************)
\* A unit of some factor table, or C, F or K in either letter case.
Known(unit) == unit \in KnownUnits \/ unit \in DOMAIN toUpperCase

Converted ==
    /\ args.fn = "convert"
    /\ IsFinite(args.value)
    /\ results["convertUnit"].state # "idle"

\* C14: convertUnit called with a finite value throws whenever either unit
\* is in no factor table and is no temperature unit, also when both
\* arguments are the same unknown string; it returns no number then.
C14_UnknownUnitThrows ==
    (Converted /\ (~Known(args.from) \/ ~Known(args.to)))
    => results["convertUnit"].state = "threw"

\* C15: convertUnit called with a finite value throws whenever the two units
\* are both known but of different quantity types; it returns no number
\* computed from the factors of two tables.
C15_DifferentTypesThrow ==
    (/\ Converted
     /\ Known(args.from) /\ Known(args.to)
     /\ ~SameType(args.from, args.to))
    => results["convertUnit"] = Throw(UnsupportedMessage)

\* convertUnit has been asked to convert a length to a pressure.
C15_Witness ==
    /\ Converted
    /\ args.from = "m" /\ args.to = "Pa"
    /\ results["convertUnit"].state = "threw"

\* C16: convertUnit(u, u, v) returns v unchanged for every unit u of every
\* factor table, every temperature unit in either letter case and every
\* finite v.
C16_SameUnitIdentity ==
    (Converted /\ Known(args.from) /\ args.to = args.from)
    => results["convertUnit"] = Returned(args.value)

\* convertUnit has converted -0.5 psi to psi.
C16_Witness ==
    /\ Converted
    /\ args.from = "psi" /\ args.to = "psi" /\ args.value = Q(-1, 2)
    /\ results["convertUnit"].state = "returned"

\* C17: for two units A, B of one factor table, and for two temperature
\* units, convertUnit(A, B, convertUnit(B, A, v)) is v for every finite v.
C17_RoundTrip ==
    (/\ Converted
     /\ Known(args.from) /\ Known(args.to)
     /\ SameType(args.from, args.to)
     /\ results["convertUnitBack"].state # "idle")
    => results["convertUnitBack"] = Returned(args.value)

\* -0.5 F has been converted to C and back.
C17_Witness ==
    /\ Converted
    /\ args.from = "F" /\ args.to = "C" /\ args.value = Q(-1, 2)
    /\ results["convertUnit"].state = "returned"
    /\ results["convertUnit"].value # args.value
    /\ results["convertUnitBack"].state = "returned"

C19_DynViscPropagates ==
    results["getDynViscAtTemp"].state = "returned" =>
        LET r == results["getDynViscAtTemp"]
            kinVisc == getKinViscAtTemp(r.fluidData, args.name, args.tK)
            density == getDensityAtTemp(r.fluidData, args.name, args.tK)
        IN  /\ (\/ args.name \notin DOMAIN r.fluidData
                \/ TooFewLimits(r.fluidData, args.name)
                \/ ~isFinite(args.tK)
                \/ ~isFinite(kinVisc)
                \/ ~isFinite(density))
                 => IsNaN(r.value)
            /\ (isFinite(kinVisc) /\ isFinite(density))
                 => r.value = Times(Times(kinVisc, Q(1, 1000000)), density)

\* getDynViscAtTemp has returned a viscosity for a loaded fluid at 100 K.
C19_Witness ==
    /\ args.name = "ISO VG 32"
    /\ args.tK = Num(100)
    /\ results["getDynViscAtTemp"].state = "returned"
    /\ "ISO VG 32" \in DOMAIN results["getDynViscAtTemp"].fluidData
    /\ isFinite(results["getDynViscAtTemp"].value)

\* A fluid of the table read with two finite reference points, asked for at
\* one of its reference temperatures.
AtReferencePoint ==
    /\ results["getKinViscAtTemp"].state = "returned"
    /\ ~TooFewLimits(results["getKinViscAtTemp"].fluidData, args.name)
    /\ LET kv == results["getKinViscAtTemp"].fluidData[args.name][
                     "Kinematic Viscosity Limits"]
       IN  /\ \A i \in 1..2 : /\ isFinite(kv[i].temperature)
                              /\ isFinite(kv[i].kinematicViscosity)
           /\ \E i \in 1..2 : args.tK = kv[i].temperature

ReferenceLimits ==
    results["getKinViscAtTemp"].fluidData[args.name][
        "Kinematic Viscosity Limits"]

\* C20: for every fluid with two finite reference points (T1, v1),
\* (T2, v2), getKinViscAtTemp returns v1 at T1 and v2 at T2.
C20_RecoversReferencePoints ==
    AtReferencePoint =>
        \A i \in 1..2 :
            args.tK = ReferenceLimits[i].temperature
              => results["getKinViscAtTemp"].value
                   = ReferenceLimits[i].kinematicViscosity

\* v > 0.2, so that log10(v + 0.8) is positive
AboveWaltherDomain(v) == v.k = "pow10" \/ Less(Q(1, 5), v)

\* C20 as amended: the same, for reference points at two different positive
\* temperatures with viscosities above 0.2.
C20_RecoversDistinctReferencePoints ==
    (/\ AtReferencePoint
     /\ ReferenceLimits[1].temperature # ReferenceLimits[2].temperature
     /\ \A i \in 1..2 :
          /\ Less(Num(0), ReferenceLimits[i].temperature)
          /\ AboveWaltherDomain(ReferenceLimits[i].kinematicViscosity))
    => \A i \in 1..2 :
          args.tK = ReferenceLimits[i].temperature
            => results["getKinViscAtTemp"].value
                 = ReferenceLimits[i].kinematicViscosity

\* getKinViscAtTemp has returned the first reference viscosity of a loaded
\* fluid whose two reference viscosities differ.
C20_Witness ==
    /\ AtReferencePoint
    /\ args.name = "ISO VG 32"
    /\ args.tK = Num(100)
    /\ results["getKinViscAtTemp"].value = Thick

\* C21: the Walther accuracy check is diagnostic only.  A call of
\* getKinViscAtTemp never throws, returns the value that the fluid table, the
\* name and the temperature determine, whether or not the check warned about
\* an error above the 5% threshold, and leaves fluidData as it was.
C21_ValidationIsDiagnostic ==
    [][GetKinViscAtTemp =>
        /\ results'["getKinViscAtTemp"].state = "returned"
        /\ results'["getKinViscAtTemp"].value
              = getKinViscAtTemp(fluidData, args.name, args.tK)
        /\ fluidData' = fluidData]_vars

\* A call that warned and still returned a finite viscosity.
C21_Witness ==
    /\ results["getKinViscAtTemp"].state = "returned"
    /\ results["getKinViscAtTemp"].warned
    /\ isFinite(results["getKinViscAtTemp"].value)
    /\ results["getKinViscAtTemp"].fluidData = fluidData

(***************************************************************************)
(* Claims about the analysis and its charts.                               *)
(***************************************************************************)
\* The analysis of performCurveFitting fails on these rows: fewer than 3
\* valid points, or a singular system.
AnalysisFails(rows) ==
    \/ ValidSamples(rows) < 3
    \/ IsSingular(Denominator(getTableData(rows)))

FittingCanvases == {"fitPlot"}

\* C23: after any sequence of plotWithCurve and performCurveFitting calls
\* each canvas has at most one Chart instance that has not been destroyed,
\* and that one is the chart registered in window.charts.
C23_AtMostOneLiveChart ==
    \A canvasId \in FittingCanvases :
        /\ liveCharts[canvasId] <= 1
        /\ (liveCharts[canvasId] = 1) = (canvasId \in registered)

\* plotWithCurve has replaced the chart that a successful performCurveFitting
\* had registered for the canvas.
C23_Witness ==
    /\ lastOp.name = "plotWithCurve"
    /\ innerHTML["fitResults"].kind = "fit"
    /\ "fitPlot" \in registered
    /\ liveCharts["fitPlot"] = 1

\* The table a page handler reads, and the results element it writes.
TableOf(name) == IF name = "calculateAll" THEN dataTable ELSE flowDataTable

ResultsOf(name) == IF name = "calculateAll" THEN "results" ELSE "flowResults"

\* C24: when 3 or more valid samples all share one x value, so that the
\* determinant sumX2*sumX4 - sumX3^2 is zero, calculateAll and
\* calculateFromFlow fail explicitly and write no coefficients computed from
\* the zero denominator into their results element.
C24_PageSurfacesSingularSystem ==
    \A name \in {"calculateAll", "calculateFromFlow"} :
        (/\ lastOp.name = name
         /\ ValidSamples(TableOf(name)) >= 3
         /\ AllSameX(getTableData(TableOf(name))))
        => /\ ~lastOp.fitted
           /\ innerHTML[ResultsOf(name)].kind # "coefficients"

(***************************************************************************)
(* Claims about the calculators of the tools page.                         *)
(***************************************************************************)
\* C25: for finite inputs with mu # 0, velocity unit m/s, and density,
\* diameter and dynamic-viscosity units that are keys of the registered
\* factor tables, calculateReynolds writes Re = rho*V*D/mu computed in SI
\* units into the result field, and never the string Error.
C25_ReynoldsInSI ==
    (/\ args.fn = "reynolds"
     /\ results["calculateReynolds"].state = "returned"
     /\ IsFinite(args.rho) /\ IsFinite(args.V) /\ IsFinite(args.D)
     /\ IsFinite(args.mu) /\ args.mu # Num(0)
     /\ args.velocityUnit = "m/s"
     /\ args.densityUnit \in DOMAIN densityFactors
     /\ args.diameterUnit \in DOMAIN lengthFactors
     /\ args.dynViscUnit \in DOMAIN dynViscFactors)
    => results["calculateReynolds"].value =
          [kind |-> "number",
           value |-> toFixed0(
              Div(Mul(Mul(Mul(args.rho, densityFactors[args.densityUnit]),
                          args.V),
                      Mul(args.D, lengthFactors[args.diameterUnit])),
                  Mul(args.mu, dynViscFactors[args.dynViscUnit])))]

(***************************************************************************)
(* Claims about the home page.                                             *)
(***************************************************************************)
\* C26: slide transitions are serialized.  showSlide changes nothing while a
\* transition is in progress or when newIndex equals index; index changes
\* only when the final timer of an accepted transition fires, and then to
\* that transition's target; and every accepted transition ends with
\* animating false again.
C26_TransitionsSerialized ==
    /\ [][/\ \A newIndex \in SlideIds :
               (showSlide(newIndex) /\ (animating \/ newIndex = index))
               => UNCHANGED <<index, animating, slides, sidebuttons>>
          /\ index' # index =>
               \E t \in timeouts :
                   /\ t.delay = "slideDuration"
                   /\ index' = t.newIndex
                   /\ t \notin timeouts'
                   /\ animating /\ ~animating']_vars
    /\ (animating ~> ~animating)

\* A transition to another slide has ended and the next one is under way.
C26_Witness ==
    /\ index # 0
    /\ animating
    /\ \E t \in timeouts : t.delay = "slideDuration" /\ t.newIndex # index

\* The slides that carry the active class.
ActiveSlides == {i \in SlideIds : "active" \in slides[i]}

ActiveSideButtons == {i \in SlideIds : "active" \in sidebuttons[i]}

\* C27: under any interleaving of clicks, transition timers and the window
\* load event at most one slide carries the active class, and whenever no
\* transition is in progress the active slide is slides[index] and the
\* active side button is the one at index.
C27_OneActiveSlide ==
    /\ Cardinality(ActiveSlides) <= 1
    /\ ~animating => /\ ActiveSlides = {index}
                     /\ ActiveSideButtons = {index}

(***************************************************************************)
(* Claims about the temperature field of the oil properties page.          *)
(***************************************************************************)
\* C28: after the input handler has run on any typed string, the field
\* value contains only digits, the decimal point and the minus sign, at most
\* one decimal point, and a minus sign only as its first character; running
\* the handler again on that value leaves it unchanged.
C28_TemperatureFieldIsNumeric ==
    /\ results["temperatureInput"].state = "returned" =>
          LET value == results["temperatureInput"].value
          IN  /\ \A i \in DOMAIN value : ~NotNumeric(value[i])
              /\ Cardinality({i \in DOMAIN value : value[i] = "."}) <= 1
              /\ \A i \in DOMAIN value : value[i] = "-" => i = 1
    /\ results["temperatureInputAgain"].state = "returned" =>
          results["temperatureInputAgain"].value
             = results["temperatureInput"].value

\* C29: after any sequence of video-button clicks and ended events on a
\* page with at least one video button, currentIndex stays within the
\* buttons (ended on the last video loads index 0) and exactly one progress
\* timer is live, the one of progressInterval, updating the progress bar of
\* buttons[currentIndex].
C29_OneProgressTimer ==
    /\ [](/\ currentIndex \in ButtonIds
          /\ Cardinality(intervals) = 1
          /\ \A t \in intervals :
                t.id = progressInterval /\ t.progressBar = currentIndex)
    /\ [][(Ended /\ currentIndex = Cardinality(ButtonIds) - 1)
             => currentIndex' = 0]_vars

\* The player has come back to the first of three videos after the last one
\* ended, and its progress bar is moving.
C29_Witness ==
    /\ Cardinality(ButtonIds) = 3
    /\ currentIndex = 0
    /\ progressInterval >= 4
    /\ buttons[0].width = "progress%"

(***************************************************************************)
(* Claims about the pipe velocity calculator.                              *)
(***************************************************************************)
\* The field that a unit select belongs to.
FieldOf(select) ==
    CASE select = "diameterUnit" -> "diameter"
      [] select = "flowUnit" -> "flow"
      [] select = "velocityUnit" -> "velocity"

\* The third argument of toSI and fromSI in the handler of a unit select.
TypeOf(select) ==
    CASE select = "diameterUnit" -> "length"
      [] select = "flowUnit" -> "flow"
      [] select = "velocityUnit" -> "velocity"

\* C30 (the state between handlers): the oldUnit of each unit select is
\* its selected unit, isUpdating is false and no update call has returned
\* at the isUpdating test.
C30_UnitsRemembered ==
    /\ \A select \in {"diameterUnit", "flowUnit", "velocityUnit"} :
          elements[select].oldUnit = elements[select].value
    /\ ~isUpdating
    /\ pipeLog.skipped = 0

====
